---- MODULE Spec2Model ----
(***************************************************************************)
(* Retrieval core of the travel RAG assistant:                             *)
(*   rag_graph/rag_modules/hybrid_retrieval.py    (HybridRetrievalModule)  *)
(*   rag_graph/rag_modules/graph_rag_retrieval.py (GraphRAGRetrieval)      *)
(*   rag_graph/rag_modules/graph_indexing.py      (GraphIndexingModule)    *)
(* Scores are kept in hundredths (0.9 is 90).  A Python None / absent      *)
(* string is Null; an absent number is the empty sequence, a present one   *)
(* a one-element sequence.                                                 *)
(***************************************************************************)
EXTENDS Integers, Sequences, FiniteSets, TLC

VARIABLES
    entity_kv_store,    \* GraphIndexingModule.entity_kv_store   : id -> EntityKeyValue
    relation_kv_store,  \* GraphIndexingModule.relation_kv_store : id -> RelationKeyValue
    key_to_entities,    \* GraphIndexingModule.key_to_entities   : key -> Seq(id)
    key_to_relations,   \* GraphIndexingModule.key_to_relations  : key -> Seq(id)
    pc,                 \* position of the running call
    entry,              \* public entry point of the running call
    query,              \* the query, as its whitespace separated tokens
    top_k,              \* the top_k argument
    llm_kind,           \* kind of the last LLM response
    keywords,           \* (entity_keywords, topic_keywords) of extract_query_keywords
    entity_results,     \* result of entity_level_retrieval
    topic_results,      \* result of topic_level_retrieval
    dual_docs,          \* result of dual_level_retrieval
    vector_docs,        \* result of vector_search_enhanced
    merged_docs,        \* merged_docs of hybrid_search, before truncation
    returned,           \* the value returned to the caller of the entry point
    raised,             \* TRUE when an exception reached the caller
    graph_query,        \* GraphQuery of understand_graph_query
    graph_fail,         \* TRUE when the graph store call of the running call raised
    driver,             \* GraphRAGRetrieval.driver is set
    llm_resp,           \* the LLM response understand_graph_query received
    build_args,         \* arguments of the last create_entity_key_values call
    graph_indexed,      \* HybridRetrievalModule.graph_indexed
    index_before,       \* the index when the running build started
    observed,           \* what a query running beside the build read
    builds,             \* number of index construction calls made so far
    build_pos,          \* records the running build has gone through
    subgraph,           \* KnowledgeSubgraph of extract_knowledge_subgraph
    store_out,          \* what the graph store answered to the running call
    strategy_docs,      \* results of graph_rag_search before ranking
    phases,             \* the phases the running graph_rag_search has entered
    config,             \* the configuration the modules are constructed with
    engines,            \* how construction / initialize of each module ended
    data_module,        \* GraphDataPreparationModule.documents and .chunks
    system_ready,       \* GraphRAGApp.system_ready
    max_retries,        \* max_retries of the running answer stream
    attempt,            \* index of the streaming attempt in progress
    yielded,            \* what the answer stream has yielded, with its origin
    waits,              \* the time.sleep calls of the answer stream, in seconds
    fallback_calls,     \* generate_adaptive_answer calls made by the stream
    stream_end,         \* how the answer stream ended
    running,            \* REPL._running
    interrupt_count,    \* REPL._interrupt_count
    last_interrupt_time, \* REPL._last_interrupt_time, in tenths of a second
    clock,              \* time.time(), in tenths of a second
    interrupts,         \* the times of the KeyboardInterrupts at the prompt
    exit_cause          \* why REPL.run left its loop

vars == <<entity_kv_store, relation_kv_store, key_to_entities, key_to_relations,
          pc, entry, query, top_k, llm_kind, keywords, entity_results,
          topic_results, dual_docs, vector_docs, merged_docs, returned, raised,
          graph_query, graph_fail, driver, llm_resp, build_args, graph_indexed,
          index_before, observed, builds, build_pos, subgraph, store_out, strategy_docs,
          phases, config, engines, data_module, system_ready, max_retries, attempt,
          yielded, waits, fallback_calls, stream_end, running, interrupt_count,
          last_interrupt_time, clock, interrupts, exit_cause>>

indexVars == <<entity_kv_store, relation_kv_store, key_to_entities, key_to_relations>>
graphVars == <<graph_query, graph_fail, driver, llm_resp>>
buildVars == <<build_args, graph_indexed, index_before, observed, builds, build_pos>>
reasonVars == <<subgraph, store_out, strategy_docs, phases>>
appVars == <<config, engines, data_module, system_ready>>
streamVars == <<max_retries, attempt, yielded, waits, fallback_calls, stream_end>>
replVars == <<running, interrupt_count, last_interrupt_time, clock, interrupts, exit_cause>>
lateVars == <<appVars, streamVars, replVars>>
hybridVars == <<keywords, entity_results, topic_results, dual_docs, vector_docs,
                merged_docs>>

(***************************************************************************)
(* Bounds and small domains.                                               *)
(***************************************************************************)
MaxTopK == 2
MaxTokens == 7

Null == "null"
NodeIds == {"n1", "n2"}
Keys == {"a", "b"}
RelIds == {"r1"}

Some(x) == <<x>>
None == <<>>
GetNum(opt, default) == IF opt = None THEN default ELSE opt[1]

Min(x, y) == IF x <= y THEN x ELSE y
Max(x, y) == IF x >= y THEN x ELSE y

\* Python slice s[lo:hi] for 0 <= lo, with hi clipped to len(s).
Slice(s, lo, hi) == SubSeq(s, lo + 1, Min(hi, Len(s)))

\* s[:n]
Take(s, n) == Slice(s, 0, n)

RECURSIVE Flatten(_)
Flatten(ss) == IF ss = <<>> THEN <<>> ELSE Head(ss) \o Flatten(Tail(ss))

RECURSIVE SeqsUpTo(_, _)
SeqsUpTo(S, n) ==
    IF n = 0 THEN {<<>>}
    ELSE LET shorter == SeqsUpTo(S, n - 1)
         IN shorter \cup {Append(s, x) : s \in {t \in shorter : Len(t) = n - 1}, x \in S}

Range(s) == {s[i] : i \in 1..Len(s)}

(***************************************************************************)
(* RetrievalResult and list.sort(key=relevance_score, reverse=True).       *)
(* Python's sort is stable, also with reverse=True: results of equal score *)
(* keep their relative order.                                              *)
(***************************************************************************)
RetrievalResult(content, node_id, node_type, score, level, meta) ==
    [content |-> content, node_id |-> node_id, node_type |-> node_type,
     relevance_score |-> score, retrieval_level |-> level, metadata |-> meta]

Meta(source, kw, name, entity_name, src_name, tgt_name, rel_id) ==
    [source |-> source, matched_keyword |-> kw, name |-> name,
     entity_name |-> entity_name, source_name |-> src_name,
     target_name |-> tgt_name, relation_id |-> rel_id]

RECURSIVE InsertDesc(_, _)
InsertDesc(sorted, r) ==
    IF sorted = <<>> THEN <<r>>
    ELSE IF Head(sorted).relevance_score >= r.relevance_score
         THEN <<Head(sorted)>> \o InsertDesc(Tail(sorted), r)
         ELSE <<r>> \o sorted

RECURSIVE SortByScoreDesc(_)
SortByScoreDesc(rs) ==
    IF rs = <<>> THEN <<>>
    ELSE InsertDesc(SortByScoreDesc(SubSeq(rs, 1, Len(rs) - 1)), rs[Len(rs)])

(***************************************************************************)
(* GraphIndexingModule: the key-value index.                               *)
(***************************************************************************)
\* Label of the first content line written by create_entity_key_values.
NameLabel(type) ==
    CASE type = "City" -> "city_name"
      [] type = "Region" -> "region_name"
      [] type = "SubRegion" -> "subregion_name"
      [] type = "Attraction" -> "attraction_name"
      [] type = "Food" -> "food_name"
      [] type = "Restaurant" -> "restaurant_name"
      [] type = "Hotel" -> "hotel_name"
      [] type = "Festival" -> "festival_name"
      [] OTHER -> "specialty_name"

\* The EntityKeyValue built for one record with identifier id and name name.
EntityKeyValue(id, name, type) ==
    [entity_name |-> name, index_keys |-> <<name>>,
     value_content |-> <<<<NameLabel(type), name>>>>,
     entity_type |-> type, metadata |-> [node_id |-> id]]

RelationKeyValue(id, key, type, src, tgt) ==
    [relation_id |-> id, index_keys |-> <<key>>,
     value_content |-> <<src, type, tgt>>, relation_type |-> type,
     source_entity |-> src, target_entity |-> tgt]

\* dict.get(key): the value, or Null for a missing key.
StoreGet(store, id) == IF id \in DOMAIN store THEN store[id] ELSE Null

\* get_entities_by_key(key): exact-key lookup, empty for an unknown key.
get_entities_by_key(key) ==
    IF key \notin DOMAIN key_to_entities THEN <<>>
    ELSE LET ids == SelectSeq(key_to_entities[key],
                              LAMBDA id : id \in DOMAIN entity_kv_store)
         IN [i \in 1..Len(ids) |-> entity_kv_store[ids[i]]]

\* get_relations_by_key(key): exact-key lookup, empty for an unknown key.
get_relations_by_key(key) ==
    IF key \notin DOMAIN key_to_relations THEN <<>>
    ELSE LET ids == SelectSeq(key_to_relations[key],
                              LAMBDA id : id \in DOMAIN relation_kv_store)
         IN [i \in 1..Len(ids) |-> relation_kv_store[ids[i]]]

\* Type of each node of the graph the index is read from.
NodeType(id) == IF id = "n1" THEN "City" ELSE "Festival"

\* Ids in the order create_entity_key_values meets them (cities first).
NodeOrder == <<"n1", "n2">>

\* Name of each node of the graph the index is read from.
NodeName(id) == IF id = "n1" THEN "a" ELSE "b"

\* Entity stores a build can leave: the entities of the nodes loaded, which
\* are a prefix of NodeOrder.
EntityStores ==
    {[id \in Range(SubSeq(NodeOrder, 1, n)) |->
        EntityKeyValue(id, NodeName(id), NodeType(id))] : n \in 0..Len(NodeOrder)}

\* key_to_entities as the build fills it: the ids of each name, in build order.
KeyToEntitiesOf(store) ==
    [k \in {store[id].entity_name : id \in DOMAIN store} |->
        SelectSeq(NodeOrder,
                  LAMBDA id : id \in DOMAIN store /\ store[id].entity_name = k)]

\* Relation stores: each relation joins n1 to n2 under one key; the endpoints
\* are weak references and need not be in the entity store.
RelationStores ==
    {[r \in R |-> RelationKeyValue(r, "a", "HAS_ATTRACTION", "n1", "n2")] :
        R \in SUBSET RelIds}

RelOrder == <<"r1">>

KeyToRelationsOf(store) ==
    [k \in {store[r].index_keys[1] : r \in DOMAIN store} |->
        SelectSeq(RelOrder,
                  LAMBDA r : r \in DOMAIN store /\ store[r].index_keys[1] = k)]

(***************************************************************************)
(* HybridRetrievalModule.extract_query_keywords.                           *)
(* A keyword list is a JSON value: a list of keys, or null.  The query is  *)
(* kept as the list of tokens query.split() yields.                        *)
(***************************************************************************)
KwList(items) == [is_list |-> TRUE, items |-> items]
KwNone == [is_list |-> FALSE, items |-> <<>>]

\* Responses that end in the except branch: the call raises, the content is
\* empty, the content is not JSON, or the JSON value is not an object.
FailKinds == {"error", "empty", "text", "array"}

FallbackKeywordsNextThree(q) == <<KwList(Take(q, 3)), KwList(Slice(q, 3, 6))>>

\* keywords[:3], keywords[3:6] if len(keywords) > 3 else keywords
FallbackKeywords(q) ==
    <<KwList(Take(q, 3)), KwList(IF Len(q) > 3 THEN Slice(q, 3, 6) ELSE q)>>

extract_query_keywords(q, resp) ==
    IF resp.kind = "object"
    THEN <<resp.entity_keywords, resp.topic_keywords>>
    ELSE FallbackKeywords(q)

(***************************************************************************)
(* Graph store (Neo4j) outcomes seen by the dual-level engine.             *)
(***************************************************************************)
\* A record of the CONTAINS / topic queries.  blank: every rendered field is
\* null, so content_parts stays empty in the primary entity query.
NeoRec(id, type, name, blank) ==
    [node_id |-> id, node_type |-> type, name |-> name, blank |-> blank]

NeoRecs == {NeoRec("n1", "City", "a", FALSE),
            NeoRec(Null, "City", "b", FALSE),
            NeoRec("n1", "City", Null, TRUE)}

MaxNeo == 1

\* Record lists a query with LIMIT limit can return.
NeoLists(limit) == SeqsUpTo(NeoRecs, Min(limit, MaxNeo))

GeneratedId(prefix, i) ==
    CASE prefix = "unknown" -> <<"unknown_0", "unknown_1", "unknown_2", "unknown_3">>[i + 1]
      [] prefix = "fallback" -> <<"fallback_0", "fallback_1", "fallback_2", "fallback_3">>[i + 1]
      [] OTHER -> <<"topic_0", "topic_1", "topic_2", "topic_3">>[i + 1]

OrId(id, prefix, i) == IF id # Null THEN id ELSE GeneratedId(prefix, i)

\* for record in result: ... results.append(RetrievalResult(...))
RECURSIVE NeoResults(_, _, _, _, _, _)
NeoResults(recs, results, prefix, score, level, source) ==
    IF recs = <<>> THEN results
    ELSE LET r == Head(recs)
             skip == r.blank /\ source = "neo4j_contains"
             res == RetrievalResult(<<<<r.node_type, IF r.name = Null THEN "None" ELSE r.name>>>>,
                        OrId(r.node_id, prefix, Len(results)), r.node_type, score, level,
                        Meta(source, Null, r.name, Null, Null, Null, Null))
         IN NeoResults(Tail(recs), IF skip THEN results ELSE Append(results, res),
                       prefix, score, level, source)

\* _neo4j_entity_level_search: the CONTAINS query; when it raises, the simpler
\* fallback query; when that raises too, nothing.  Both queries UNWIND the
\* keywords and end in LIMIT $limit.
neo4j_entity_level_search(E, limit, out) ==
    IF E = <<>> THEN <<>>
    ELSE IF out.ok
         THEN NeoResults(Take(out.recs, limit), <<>>, "unknown", 70, "entity", "neo4j_contains")
    ELSE IF out.fb_ok
         THEN NeoResults(Take(out.fb_recs, limit), <<>>, "fallback", 60, "entity",
                         "neo4j_fallback_simple")
         ELSE <<>>

NeoEntityOutcomes(limit) ==
    {[ok |-> TRUE, recs |-> l, fb_ok |-> TRUE, fb_recs |-> <<>>] : l \in NeoLists(limit)}
    \cup {[ok |-> FALSE, recs |-> <<>>, fb_ok |-> TRUE, fb_recs |-> l] : l \in NeoLists(limit)}
    \cup {[ok |-> FALSE, recs |-> <<>>, fb_ok |-> FALSE, fb_recs |-> <<>>]}

\* _neo4j_topic_level_search: one query over the keywords; when it raises,
\* nothing.
neo4j_topic_level_search(T, out) ==
    IF T # <<>> /\ out.ok THEN NeoResults(out.recs, <<>>, "topic", 75, "topic", "neo4j_topic")
    ELSE <<>>

NeoTopicOutcomes(limit) ==
    {[ok |-> TRUE, recs |-> l] : l \in NeoLists(limit)}
    \cup {[ok |-> FALSE, recs |-> <<>>]}

\* _get_node_neighbors: names of neighbours, [] when the query raises.
\* nb[id] is TRUE when the query for id returns at least one name.
NeighborOutcomes == {[id \in NodeIds |-> b] : b \in BOOLEAN}

(***************************************************************************)
(* entity_level_retrieval / topic_level_retrieval.                         *)
(***************************************************************************)
EntityIndexResults(E, nb) ==
    Flatten([i \in 1..Len(E) |->
        LET ents == get_entities_by_key(E[i])
        IN [j \in 1..Len(ents) |->
              LET e == ents[j]
                  id == e.metadata.node_id
              IN RetrievalResult(
                    e.value_content \o (IF nb[id] THEN <<<<"related", "neighbors">>>> ELSE <<>>),
                    id, e.entity_type, 90, "entity",
                    Meta("index", E[i], Null, e.entity_name, Null, Null, Null))]])

\* results.sort(key=relevance_score, reverse=True); return results[:top_k]
entity_level_retrieval(E, k, nb, neo) ==
    LET hits == EntityIndexResults(E, nb)
        results == IF Len(hits) < k
                   THEN hits \o neo4j_entity_level_search(E, k - Len(hits), neo) ELSE hits
    IN Take(SortByScoreDesc(results), k)

DetailTypes == {"Attraction", "City", "Region"}
CategoryTypes == {"Attraction", "City", "Region", "Food", "Hotel"}

SourceEndpointIndexed(rel) == rel.source_entity \in DOMAIN entity_kv_store

\* if source_entity and target_entity
BothEndpointsIndexed(rel) ==
    rel.source_entity \in DOMAIN entity_kv_store /\ rel.target_entity \in DOMAIN entity_kv_store

\* Attribute attr of entity_kv_store.get(id); "None" stands for a missing entity.
EntityAttr(id, attr) ==
    IF id \in DOMAIN entity_kv_store THEN entity_kv_store[id][attr] ELSE "None"

RelationResult(kw, rel) ==
    LET src_name == EntityAttr(rel.source_entity, "entity_name")
        tgt_name == EntityAttr(rel.target_entity, "entity_name")
        src_type == EntityAttr(rel.source_entity, "entity_type")
    IN RetrievalResult(
          <<<<"topic", kw>>, <<"relation", rel.relation_id>>,
            <<"source", src_name>>, <<"target", tgt_name>>>>
          \o (IF src_type \in DetailTypes
              THEN <<Head(entity_kv_store[rel.source_entity].value_content)>> ELSE <<>>),
          rel.source_entity, src_type, 95, "topic",
          Meta("relation", kw, Null, Null, src_name, tgt_name, rel.relation_id))

TopicRelationResults(T) ==
    Flatten([i \in 1..Len(T) |->
        LET rels == SelectSeq(get_relations_by_key(T[i]), BothEndpointsIndexed)
        IN [j \in 1..Len(rels) |-> RelationResult(T[i], rels[j])]])

TopicCategoryResults(T) ==
    Flatten([i \in 1..Len(T) |->
        LET ents == SelectSeq(get_entities_by_key(T[i]),
                              LAMBDA e : e.entity_type \in CategoryTypes)
        IN [j \in 1..Len(ents) |->
              RetrievalResult(<<<<"category", T[i]>>>> \o ents[j].value_content,
                    ents[j].metadata.node_id, ents[j].entity_type, 85, "topic",
                    Meta("category_match", T[i], Null, ents[j].entity_name, Null, Null, Null))]])

topic_level_retrieval(T, k, neo) ==
    LET hits == TopicRelationResults(T) \o TopicCategoryResults(T)
        results == IF Len(hits) < k THEN hits \o neo4j_topic_level_search(T, neo) ELSE hits
    IN Take(SortByScoreDesc(results), k)

(***************************************************************************)
(* Documents, dual_level_retrieval, vector_search_enhanced.                *)
(***************************************************************************)
NoMeta == Meta(Null, Null, Null, Null, Null, Null, Null)

\* A langchain Document.  A metadata key that is absent holds Null / None.
Document(content, node_id, node_type, level, relevance, recipe, search_type, score, meta) ==
    [page_content |-> content,
     metadata |-> [node_id |-> node_id, node_type |-> node_type,
                   retrieval_level |-> level, relevance_score |-> relevance,
                   recipe_name |-> recipe, search_type |-> search_type,
                   score |-> score, search_method |-> Null,
                   round_robin_order |-> None, final_score |-> None,
                   result |-> meta]]

\* seen_nodes / unique_results loop: first occurrence of each node_id.
RECURSIVE UniqueByNode(_, _)
UniqueByNode(rs, seen) ==
    IF rs = <<>> THEN <<>>
    ELSE IF Head(rs).node_id \in seen
         THEN UniqueByNode(Tail(rs), seen)
         ELSE <<Head(rs)>> \o UniqueByNode(Tail(rs), seen \cup {Head(rs).node_id})

\* metadata.get("name") or metadata.get("entity_name", default)
RecipeName(meta) ==
    IF meta.name # Null THEN meta.name
    ELSE IF meta.entity_name # Null THEN meta.entity_name ELSE "unknown_recipe"

ResultDocument(r) ==
    Document(r.content, r.node_id, r.node_type, r.retrieval_level,
             Some(r.relevance_score), RecipeName(r.metadata), "dual_level", None,
             r.metadata)

DualLevelDocumentsUnsorted(ents, tops, k) ==
    LET kept == Take(UniqueByNode(ents \o tops, {}), k)
    IN [i \in 1..Len(kept) |-> ResultDocument(kept[i])]

\* Steps 3-5 of dual_level_retrieval.
DualLevelDocuments(ents, tops, k) ==
    LET unique_results == UniqueByNode(SortByScoreDesc(ents \o tops), {})
        kept == Take(unique_results, k)
    IN [i \in 1..Len(kept) |-> ResultDocument(kept[i])]

\* A hit of milvus_module.similarity_search: text, metadata node_id (Null when
\* the key is absent) and score (None when the key is absent).
VecHit(text, node_id, score) == [text |-> text, node_id |-> node_id, score |-> score]

VecHits == {VecHit("t1", "n1", Some(20)), VecHit("t2", Null, Some(150)),
            VecHit("t3", Null, None)}

MaxVec == 2

\* hash(page_content): not injective, "t2" and "t3" collide.
Hash(content) ==
    LET t == content[1][2]
    IN IF t \in {"t2", "t3"} THEN "#1" ELSE "#2"

VectorDocument(hit, nb) ==
    Document(<<<<"text", hit.text>>>>
             \o (IF hit.node_id # Null /\ nb[hit.node_id]
                 THEN <<<<"related", "neighbors">>>> ELSE <<>>),
             hit.node_id, Null, Null, None, "unknown_recipe", "vector_enhanced",
             Some(GetNum(hit.score, 0)), NoMeta)

VectorOutcomes(k) ==
    {[ok |-> TRUE, hits |-> l] : l \in SeqsUpTo(VecHits, Min(2 * k, MaxVec))}
    \cup {[ok |-> FALSE, hits |-> <<>>]}

\* vector_search_enhanced: [] when the vector store raises.
vector_search_enhanced(out, k, nb) ==
    IF out.ok
    THEN Take([i \in 1..Len(out.hits) |-> VectorDocument(out.hits[i], nb)], k)
    ELSE <<>>

(***************************************************************************)
(* hybrid_search: round-robin merge.                                       *)
(***************************************************************************)
\* doc.metadata.get("node_id", hash(doc.page_content))
DocId(doc) ==
    IF doc.metadata.node_id # Null THEN doc.metadata.node_id ELSE Hash(doc.page_content)

SimilarityScoreUnclamped(vector_score) == 100 - vector_score

\* max(0.0, 1.0 - vector_score) if vector_score <= 1.0 else 0.0
SimilarityScore(vector_score) ==
    IF vector_score <= 100 THEN Max(0, 100 - vector_score) ELSE 0

\* An accepted document numbered by its position among the documents
\* met, not among those accepted.
AcceptDualCountingFromOne(doc, merged) ==
    [doc EXCEPT !.metadata.search_method = "dual_level",
                !.metadata.round_robin_order = Some(Len(merged) + 1),
                !.metadata.final_score = Some(GetNum(doc.metadata.relevance_score, 0))]

AcceptDual(doc, merged) ==
    [doc EXCEPT !.metadata.search_method = "dual_level",
                !.metadata.round_robin_order = Some(Len(merged)),
                !.metadata.final_score = Some(GetNum(doc.metadata.relevance_score, 0))]

AcceptVector(doc, merged) ==
    [doc EXCEPT !.metadata.search_method = "vector_enhanced",
                !.metadata.round_robin_order = Some(Len(merged)),
                !.metadata.final_score =
                    Some(SimilarityScore(GetNum(doc.metadata.score, 0)))]

\* The document as its origin's branch of the loop appends it.
Accept(origin, doc, merged) ==
    IF origin = "dual" THEN AcceptDual(doc, merged) ELSE AcceptVector(doc, merged)

ConsiderUnchecked(docs, i, st, origin) ==
    IF i <= Len(docs)
    THEN [merged |-> Append(st.merged, Accept(origin, docs[i], st.merged)),
          seen |-> st.seen \cup {DocId(docs[i])}]
    ELSE st

\* One source's turn at index i: accept the document unless its id was seen.
Consider(docs, i, st, origin) ==
    IF i <= Len(docs) /\ DocId(docs[i]) \notin st.seen
    THEN [merged |-> Append(st.merged, Accept(origin, docs[i], st.merged)),
          seen |-> st.seen \cup {DocId(docs[i])}]
    ELSE st

\* for i in range(max_len): dual_docs[i] first, then vector_docs[i]
RECURSIVE RoundRobin(_, _, _, _)
RoundRobin(dual, vec, i, st) ==
    IF i > Max(Len(dual), Len(vec)) THEN st.merged
    ELSE RoundRobin(dual, vec, i + 1,
                    Consider(vec, i, Consider(dual, i, st, "dual"), "vector"))

MergeDocsVectorFirst(dual, vec) ==
    LET st0 == [merged |-> <<>>, seen |-> {}]
        Step(st, i) == Consider(dual, i, Consider(vec, i, st, "vector"), "dual")
        F[i \in 0..Max(Len(dual), Len(vec))] == IF i = 0 THEN st0 ELSE Step(F[i - 1], i)
    IN F[Max(Len(dual), Len(vec))].merged

MergeDocs(dual, vec) == RoundRobin(dual, vec, 1, [merged |-> <<>>, seen |-> {}])

(***************************************************************************)
(* GraphRAGRetrieval.understand_graph_query.                               *)
(* A list valued field is KwList(items), or KwNone for None.               *)
(***************************************************************************)
\* QueryType: the five values of the enumeration.
QueryTypes == {"entity_relation", "multi_hop", "subgraph", "path_finding", "clustering"}

GraphQuery(type, sources, targets, relations, depth, nodes) ==
    [query_type |-> type, source_entities |-> sources, target_entities |-> targets,
     relation_types |-> relations, max_depth |-> depth, max_nodes |-> nodes]

NoGraphQuery == GraphQuery(Null, KwNone, KwNone, KwNone, 0, 0)

\* An LLM response to the intent prompt.  kind "object" is a JSON object with
\* the fields below; an absent key holds Absent, a JSON null holds Null.
Absent == "absent"
GraphResponse(kind, type, sources, depth) ==
    [kind |-> kind, query_type |-> type, source_entities |-> sources, max_depth |-> depth]

NoGraphResponse == GraphResponse(Null, Absent, KwNone, None)

understand_graph_query_unchecked(q, resp) ==
    IF resp.kind = "object"
    THEN GraphQuery(IF resp.query_type = Absent THEN "subgraph" ELSE resp.query_type,
                    resp.source_entities, KwList(<<>>), KwList(<<>>),
                    GetNum(resp.max_depth, 2), 50)
    ELSE GraphQuery("subgraph", KwList(<<q>>), KwNone, KwNone, 2, 50)

\* json.loads, QueryType(result.get("query_type", "subgraph")), the other
\* fields with their defaults; any exception gives the SUBGRAPH fallback.
understand_graph_query(q, resp) ==
    LET type == IF resp.query_type = Absent THEN "subgraph" ELSE resp.query_type
    IN IF resp.kind = "object" /\ type \in QueryTypes
       THEN GraphQuery(type, resp.source_entities, KwList(<<>>), KwList(<<>>),
                       GetNum(resp.max_depth, 2), 50)
       ELSE GraphQuery("subgraph", KwList(<<q>>), KwNone, KwNone, 2, 50)

(***************************************************************************)
(* GraphRAGRetrieval: traversal, subgraph extraction, reasoning, ranking.  *)
(***************************************************************************)
GraphPath(names, len, score, type) ==
    [nodes |-> names, path_length |-> len, relevance_score |-> score, path_type |-> type]

\* A path record of a traversal query: node names and relevance.
PathRecs == {[names |-> <<"a", "b">>, relevance |-> 90],
             [names |-> <<"a", "b", "a">>, relevance |-> 50]}

MaxPaths == 2

\* Outcome of the one graph store query a traversal runs.
PathOutcomes ==
    {[ok |-> TRUE, recs |-> l] : l \in SeqsUpTo(PathRecs, MaxPaths)}
    \cup {[ok |-> FALSE, recs |-> <<>>]}

\* multi_hop_traversal: [] without a driver or when the query raises.
\* MULTI_HOP parses each record; ENTITY_RELATION builds two-node paths;
\* PATH_FINDING parses records that carry path_rels but no "rels" field, so
\* _parse_neo4j_path returns None for each of them.
multi_hop_traversal(gq, has_driver, out) ==
    IF ~has_driver \/ ~out.ok THEN <<>>
    ELSE CASE gq.query_type = "multi_hop" ->
                [i \in 1..Len(out.recs) |->
                    GraphPath(out.recs[i].names, Len(out.recs[i].names) - 1,
                              out.recs[i].relevance, "multi_hop")]
           [] gq.query_type = "entity_relation" ->
                [i \in 1..Len(out.recs) |->
                    GraphPath(SubSeq(out.recs[i].names, 1, 2), 1,
                              out.recs[i].relevance, "entity_relation")]
           [] OTHER -> <<>>

GraphDocument(content, search_type, relevance, node_count, rel_count, chains, recipe) ==
    [page_content |-> content,
     metadata |-> [search_type |-> search_type, relevance_score |-> relevance,
                   node_count |-> node_count, relationship_count |-> rel_count,
                   reasoning_chains |-> chains, recipe_name |-> recipe]]

\* _paths_to_documents
paths_to_documents(paths) ==
    [i \in 1..Len(paths) |->
        GraphDocument(paths[i].nodes, "graph_path", Some(paths[i].relevance_score),
                      Len(paths[i].nodes), paths[i].path_length, <<>>,
                      IF paths[i].nodes # <<>> THEN paths[i].nodes[1] ELSE "graph_result")]

GraphNode(labels, name) == [labels |-> labels, name |-> name]

\* graph_metrics: a dict whose keys can be missing; {} has none of them.
GraphMetrics(node_count, rel_count, density) ==
    [node_count |-> node_count, relationship_count |-> rel_count, density |-> density]

\* A KnowledgeSubgraph with graph_metrics = {} and no reasoning chains.
KnowledgeSubgraph(central, connected, rels) ==
    [central_nodes |-> central, connected_nodes |-> connected, relationships |-> rels,
     graph_metrics |-> GraphMetrics(None, None, None), reasoning_chains |-> <<>>]

\* _fallback_subgraph_extraction
EmptySubgraph == KnowledgeSubgraph(<<>>, <<>>, <<>>)

\* What the subgraph query can match: a source node, the distinct nodes
\* within max_depth hops of it and the relationships on the way, given as
\* central_nodes, connected_nodes and relationships.
SubgraphRecs ==
    {KnowledgeSubgraph(<<GraphNode({"City"}, "a")>>, <<GraphNode({"Attraction"}, "b")>>,
                       <<"HAS_ATTRACTION">>),
     KnowledgeSubgraph(<<GraphNode({}, "a")>>, <<>>, <<>>)}

\* Outcome of the subgraph query: it raises, matches no source, matches
\* what _build_knowledge_subgraph cannot convert, or what it converts.
SubgraphOutcomes ==
    {[kind |-> k, record |-> EmptySubgraph] : k \in {"fail", "none", "unconvertible"}}
    \cup {[kind |-> "record", record |-> r] : r \in SubgraphRecs}

\* An extraction that runs the query whether or not a driver is set.
extract_knowledge_subgraph_undriven(gq, has_driver, out) ==
    IF /\ out.kind = "record"
       /\ out.record.connected_nodes # <<>>
       /\ Len(out.record.connected_nodes) <= gq.max_nodes
    THEN [KnowledgeSubgraph(out.record.central_nodes,
                            Take(out.record.connected_nodes, gq.max_nodes),
                            Take(out.record.relationships, gq.max_nodes))
            EXCEPT !.graph_metrics =
                GraphMetrics(Some(Len(out.record.connected_nodes)),
                             Some(Len(out.record.relationships)),
                             Some(0))]
    ELSE EmptySubgraph

\* extract_knowledge_subgraph: the empty subgraph without a driver, when the
\* query raises and when it yields no record.  The query yields a record
\* when the source has a neighbour within max_depth hops and
\* size(neighbors) <= $max_nodes; it returns neighbors[0..max_nodes],
\* relationships[0..max_nodes] and the metrics of the whole match, the
\* density in hundredths.
extract_knowledge_subgraph(gq, has_driver, out) ==
    IF /\ has_driver
       /\ out.kind = "record"
       /\ out.record.connected_nodes # <<>>
       /\ Len(out.record.connected_nodes) <= gq.max_nodes
    THEN [KnowledgeSubgraph(out.record.central_nodes,
                            Take(out.record.connected_nodes, gq.max_nodes),
                            Take(out.record.relationships, gq.max_nodes))
            EXCEPT !.graph_metrics =
                GraphMetrics(Some(Len(out.record.connected_nodes)),
                             Some(Len(out.record.relationships)),
                             Some(IF Len(out.record.connected_nodes) > 1
                                  THEN (100 * Len(out.record.relationships))
                                         \div ((Len(out.record.connected_nodes)
                                                  * (Len(out.record.connected_nodes) - 1)) \div 2)
                                  ELSE 0))]
    ELSE EmptySubgraph

\* The tourism keywords of _validate_reasoning_chains.
TourismKeywords ==
    {"travel", "attraction", "hotel", "food", "restaurant", "transport", "route",
     "ticket", "opening_hours", "address", "recommend", "guide", "experience",
     "culture", "history", "nature", "scenery", "lodging", "shopping"}

SubgraphNodes(sg) == sg.central_nodes \o sg.connected_nodes
NodeLabels(sg) == UNION {SubgraphNodes(sg)[i].labels : i \in 1..Len(SubgraphNodes(sg))}

\* _identify_reasoning_patterns, in the order the patterns are appended.
identify_reasoning_patterns(sg) ==
    LET labels == NodeLabels(sg)
        rels == Range(sg.relationships)
        On(cond, p) == IF cond THEN <<p>> ELSE <<>>
        patterns ==
            On("City" \in labels \/ "Region" \in labels, "geographic")
            \o On("Attraction" \in labels, "attraction")
            \o On(rels \cap {"HAS_ATTRACTION", "HAS_FOOD", "HAS_HOTEL"} # {}, "service")
            \o On("NEARBY" \in rels, "spatial")
            \o On("Food" \in labels \/ "Restaurant" \in labels, "food")
            \o On("Hotel" \in labels, "accommodation")
            \o On("Festival" \in labels, "festival")
    IN IF patterns = <<>> THEN <<"theme", "similarity">> ELSE patterns

\* The subgraph nodes (by position) that carry label l.
NodesWith(sg, l) == {i \in 1..Len(SubgraphNodes(sg)) : l \in SubgraphNodes(sg)[i].labels}

\* _build_reasoning_chain: the chain of a pattern, kept as the pattern and the
\* tourism keywords its rendered sentence contains.
build_reasoning_chain(pattern, sg) ==
    [pattern |-> pattern,
     keywords |->
        CASE pattern = "geographic" ->
                LET locations == NodesWith(sg, "City")
                    regions == (NodesWith(sg, "Region") \cup NodesWith(sg, "SubRegion"))
                                 \ locations
                IN IF locations # {} /\ regions # {} THEN {"travel"}
                   ELSE IF Cardinality(locations) > 1 THEN {"travel", "route"}
                   ELSE {"travel"}
          [] pattern = "attraction" -> {"attraction", "travel", "experience"}
          [] pattern = "service" ->
                IF NodesWith(sg, "Hotel") \ (NodesWith(sg, "Food") \cup NodesWith(sg, "Restaurant"))
                     # {}
                THEN {"travel", "lodging"} ELSE {"travel"}
          [] pattern = "spatial" ->
                IF "NEARBY" \in Range(sg.relationships) THEN {} ELSE {"travel"}
          [] pattern = "food" ->
                IF NodesWith(sg, "Restaurant") \ NodesWith(sg, "Food") # {}
                THEN {"food", "culture", "recommend", "restaurant"} ELSE {"food", "culture"}
          [] pattern = "accommodation" ->
                IF NodesWith(sg, "Hotel") # {} THEN {"lodging"} ELSE {"lodging", "travel"}
          [] pattern = "festival" ->
                IF NodesWith(sg, "Festival") # {}
                THEN {"travel", "experience", "culture"} ELSE {"travel"}
          [] OTHER -> {"travel"}]

\* relevance_score of one chain: 2 per keyword also in the query, else 1.
ChainScore(chain, q) ==
    2 * Cardinality(chain.keywords \cap Range(q)) + Cardinality(chain.keywords \ Range(q))

\* A validation that keeps a chain only for its relevance score.
validate_reasoning_chains_strict(chains, q) ==
    LET validated == SelectSeq(chains, LAMBDA c : ChainScore(c, q) >= 2)
        kept == IF Len(validated) < 2 /\ chains # <<>> THEN Take(chains, 2) ELSE validated
    IN Take(kept, 3)

\* _validate_reasoning_chains
validate_reasoning_chains(chains, q) ==
    LET validated == SelectSeq(chains, LAMBDA c : ChainScore(c, q) >= 2 \/ Len(chains) <= 3)
        kept == IF Len(validated) < 2 /\ chains # <<>> THEN Take(chains, 2) ELSE validated
    IN Take(kept, 3)

\* graph_structure_reasoning
graph_structure_reasoning(sg, q) ==
    LET patterns == identify_reasoning_patterns(sg)
    IN validate_reasoning_chains(
          [i \in 1..Len(patterns) |-> build_reasoning_chain(patterns[i], sg)], q)

\* _subgraph_to_documents: always one document describing the subgraph.
subgraph_to_documents(sg, chains) ==
    <<GraphDocument(<<"knowledge_network">>
                        \o [i \in 1..Len(sg.central_nodes) |-> sg.central_nodes[i].name],
                    "knowledge_subgraph", None, Len(sg.connected_nodes),
                    Len(sg.relationships),
                    [i \in 1..Len(chains) |-> chains[i].pattern],
                    IF sg.central_nodes # <<>> THEN sg.central_nodes[1].name
                    ELSE "knowledge_subgraph")>>

RECURSIVE InsertByRelevance(_, _)
InsertByRelevance(sorted, d) ==
    IF sorted = <<>> THEN <<d>>
    ELSE IF GetNum(Head(sorted).metadata.relevance_score, 0)
              >= GetNum(d.metadata.relevance_score, 0)
         THEN <<Head(sorted)>> \o InsertByRelevance(Tail(sorted), d)
         ELSE <<d>> \o sorted

\* A ranking that leaves the documents in the order of the strategy.
rank_by_graph_relevance_unsorted(docs) == docs

\* _rank_by_graph_relevance: stable sort, relevance_score descending, 0.0 when absent.
RECURSIVE rank_by_graph_relevance(_)
rank_by_graph_relevance(docs) ==
    IF docs = <<>> THEN <<>>
    ELSE InsertByRelevance(rank_by_graph_relevance(SubSeq(docs, 1, Len(docs) - 1)),
                           docs[Len(docs)])

\* The phases step 2 of graph_rag_search enters for a query type, with
\* graph_structure_reasoning after every strategy.
StrategyPhasesReasoned(type) ==
    CASE type \in {"multi_hop", "path_finding", "entity_relation"} -> <<"TRAVERSED", "REASONED">>
      [] type = "subgraph" -> <<"SUBGRAPH_EXTRACTED", "REASONED">>
      [] OTHER -> <<>>

\* The phases step 2 of graph_rag_search enters for a query type: the
\* traversal branches call multi_hop_traversal only, the SUBGRAPH branch
\* extract_knowledge_subgraph and graph_structure_reasoning, and no branch
\* is written for CLUSTERING.
StrategyPhases(type) ==
    CASE type \in {"multi_hop", "path_finding", "entity_relation"} -> <<"TRAVERSED">>
      [] type = "subgraph" -> <<"SUBGRAPH_EXTRACTED", "REASONED">>
      [] OTHER -> <<>>

\* Step 2 of graph_rag_search: the documents of the strategy of the query type.
StrategyDocuments(gq, q, has_driver, paths_out, sub_out) ==
    CASE gq.query_type \in {"multi_hop", "path_finding", "entity_relation"} ->
            paths_to_documents(multi_hop_traversal(gq, has_driver, paths_out))
      [] gq.query_type = "subgraph" ->
            LET sg == extract_knowledge_subgraph(gq, has_driver, sub_out)
            IN subgraph_to_documents(sg, graph_structure_reasoning(sg, q))
      [] OTHER -> <<>>

(***************************************************************************)
(* GraphIndexingModule.create_entity_key_values.  The nine loops are the    *)
(* same but for the entity_type and the content label; the cities and the   *)
(* attractions loops are modelled (the two collections the direct graph     *)
(* load of HybridRetrievalModule passes).                                   *)
(***************************************************************************)
MaxRecs == 2
MaxBuilds == 1

\* The attributes of an input object the loops read: Absent when the object
\* has no such attribute, Null when the attribute holds None.  The objects
\* have no node_name attribute (GraphNode has none).
EntityRecord(id, node_id, name) == [id |-> id, node_id |-> node_id, name |-> name]

\* getattr(x, 'id', x.node_id if hasattr(x, 'node_id') else None)
RecordId(rec) ==
    IF rec.id # Absent THEN rec.id
    ELSE IF rec.node_id # Absent THEN rec.node_id ELSE Null

\* getattr(x, 'name', x.node_name if hasattr(x, 'node_name') else None)
RecordName(rec) == IF rec.name # Absent THEN rec.name ELSE Null

\* not x, for x a string or None
Falsy(x) == x \in {Null, ""}

\* A record the loops index.
Complete(rec) == ~Falsy(RecordId(rec)) /\ ~Falsy(RecordName(rec))

\* The index as one value: the two stores and the two key mappings.
Index(entities, entity_keys, relations, relation_keys) ==
    [entity_kv_store |-> entities, key_to_entities |-> entity_keys,
     relation_kv_store |-> relations, key_to_relations |-> relation_keys]

\* GraphIndexingModule.__init__
EmptyIndex == Index(<< >>, << >>, << >>, << >>)

\* d[k] = v
Put(d, k, v) == [x \in DOMAIN d \cup {k} |-> IF x = k THEN v ELSE d[x]]

\* A mapping that holds one identifier per key: d[k] = [v]
AppendReplacing(d, k, v) == [x \in DOMAIN d \cup {k} |-> IF x = k THEN <<v>> ELSE d[x]]

\* defaultdict(list): d[k].append(v)
AppendTo(d, k, v) ==
    [x \in DOMAIN d \cup {k} |->
        IF x = k THEN (IF k \in DOMAIN d THEN Append(d[k], v) ELSE <<v>>) ELSE d[x]]

\* One loop iteration that skips a record only when its identifier is missing.
IndexRecordIdOnly(ix, rec, type) ==
    IF Falsy(RecordId(rec)) THEN ix
    ELSE [ix EXCEPT
            !.entity_kv_store = Put(@, RecordId(rec),
                                    EntityKeyValue(RecordId(rec), RecordName(rec), type)),
            !.key_to_entities = AppendTo(@, RecordName(rec), RecordId(rec))]

\* One loop iteration: continue on a missing identifier or name, else store
\* the EntityKeyValue under the identifier and append the identifier to the
\* list of the name.
IndexRecord(ix, rec, type) ==
    IF Falsy(RecordId(rec)) \/ Falsy(RecordName(rec)) THEN ix
    ELSE [ix EXCEPT
            !.entity_kv_store = Put(@, RecordId(rec),
                                    EntityKeyValue(RecordId(rec), RecordName(rec), type)),
            !.key_to_entities = AppendTo(@, RecordName(rec), RecordId(rec))]

\* for x in collection: ...
RECURSIVE IndexRecords(_, _, _)
IndexRecords(ix, recs, type) ==
    IF recs = <<>> THEN ix
    ELSE IndexRecords(IndexRecord(ix, Head(recs), type), Tail(recs), type)

\* if collection is None: collection = []
ArgItems(arg) == IF arg.is_list THEN arg.items ELSE <<>>

BuildArgs(cities, attractions) == [cities |-> cities, attractions |-> attractions]

NoBuildArgs == BuildArgs(KwNone, KwNone)

\* create_entity_key_values(cities=..., attractions=...) on the index ix.
create_entity_key_values(ix, args) ==
    IndexRecords(IndexRecords(ix, ArgItems(args.cities), "City"),
                 ArgItems(args.attractions), "Attraction")

\* Objects a caller passes as cities: GraphNode-like records with a node_id
\* and a name, records carrying an id attribute, and records with a missing
\* or empty identifier or name.
CityRecords ==
    {EntityRecord(Absent, "n1", "a"), EntityRecord("n2", Absent, "a"),
     EntityRecord(Null, "n1", "a"), EntityRecord(Absent, "n2", ""),
     EntityRecord(Absent, "n1", Absent)}

\* Objects a caller passes as attractions.
AttractionRecords ==
    {EntityRecord(Absent, "n2", "a"), EntityRecord(Absent, "n2", "b"),
     EntityRecord(Absent, "", "a"), EntityRecord(Absent, Absent, "a")}

EntityArgs ==
    {BuildArgs(c, a) :
        c \in {KwList(l) : l \in SeqsUpTo(CityRecords, MaxRecs)} \cup {KwNone},
        a \in {KwList(l) : l \in SeqsUpTo(AttractionRecords, 1)} \cup {KwNone}}

\* The index held by the module.
CurrentIndex == Index(entity_kv_store, key_to_entities, relation_kv_store, key_to_relations)

NoObservation == [key |-> Null, result |-> <<>>, during |-> FALSE]

NoStoreOut == [kind |-> Null]

(***************************************************************************)
(* The dual-level / hybrid call as a state machine.                        *)
(***************************************************************************)
Queries == SeqsUpTo(Keys, MaxTokens)
ShortQueries == {q \in Queries : Len(q) = 1}
\* hybrid_search reads the query only in extract_query_keywords, where the LLM
\* responses already range over every keyword list; one query is enough.
HybridQueries == {<<"a">>}
TopKs == 1..MaxTopK

MaxKw == 1

\* Keyword values a JSON object of the LLM can carry: a list, or null.
KwValues == {KwList(l) : l \in SeqsUpTo(Keys, MaxKw)} \cup {KwNone}

LLMKeywordResponses ==
    {[kind |-> k, entity_keywords |-> KwList(<<>>), topic_keywords |-> KwList(<<>>)] :
        k \in FailKinds}
    \cup {[kind |-> "object", entity_keywords |-> e, topic_keywords |-> t] :
            e \in KwValues, t \in KwValues}

\* No module constructed, no answer stream and no REPL loop running.
NoConfig == [neo4j |-> Null, llm_api_key |-> FALSE]
NoEngines == [generation |-> "new", hybrid |-> "new", graph_rag |-> "new"]
NoDocuments == [documents |-> <<>>, chunks |-> <<>>]

NoApp ==
    /\ config = NoConfig
    /\ engines = NoEngines
    /\ data_module = NoDocuments
    /\ system_ready = FALSE

NoStream ==
    /\ max_retries = 0
    /\ attempt = 0
    /\ yielded = <<>>
    /\ waits = <<>>
    /\ fallback_calls = 0
    /\ stream_end = Null

NoRepl ==
    /\ running = FALSE
    /\ interrupt_count = 0
    /\ last_interrupt_time = 0
    /\ clock = 0
    /\ interrupts = <<>>
    /\ exit_cause = Null

NoSession == NoApp /\ NoStream /\ NoRepl

NoCall ==
    /\ pc = "idle"
    /\ entry = Null
    /\ query = <<>>
    /\ top_k = 0
    /\ llm_kind = Null
    /\ keywords = <<KwList(<<>>), KwList(<<>>)>>
    /\ entity_results = <<>>
    /\ topic_results = <<>>
    /\ dual_docs = <<>>
    /\ vector_docs = <<>>
    /\ merged_docs = <<>>
    /\ returned = <<>>
    /\ raised = FALSE
    /\ graph_query = NoGraphQuery
    /\ graph_fail = FALSE
    /\ llm_resp = NoGraphResponse
    /\ build_args = NoBuildArgs
    /\ graph_indexed = FALSE
    /\ index_before = EmptyIndex
    /\ observed = NoObservation
    /\ builds = 0
    /\ build_pos = 0
    /\ subgraph = EmptySubgraph
    /\ store_out = NoStoreOut
    /\ strategy_docs = <<>>
    /\ phases = <<>>

NoRequest == NoCall /\ NoSession

\* A built index and no call in progress.
Init ==
    /\ entity_kv_store \in EntityStores
    /\ relation_kv_store \in RelationStores
    /\ key_to_entities = KeyToEntitiesOf(entity_kv_store)
    /\ key_to_relations = KeyToRelationsOf(relation_kv_store)
    /\ driver = TRUE
    /\ NoRequest

\* A caller invokes hybrid_search(query, top_k).
Call(e, q, k) ==
    /\ pc = "idle"
    /\ pc' = "keywords"
    /\ entry' = e
    /\ query' = q
    /\ top_k' = k
    /\ UNCHANGED <<lateVars, indexVars, buildVars, reasonVars, graphVars, hybridVars, llm_kind, returned, raised>>

\* dual_level_retrieval step 1: extract_query_keywords.
ExtractQueryKeywords(resp) ==
    /\ pc = "keywords"
    /\ keywords' = extract_query_keywords(query, resp)
    /\ llm_kind' = resp.kind
    /\ pc' = "entity"
    /\ UNCHANGED <<lateVars, indexVars, buildVars, reasonVars, graphVars, entry, query, top_k, entity_results,
                   topic_results, dual_docs, vector_docs, merged_docs, returned, raised>>

\* "for keyword in entity_keywords" over None: the TypeError is caught nowhere
\* on the way to the caller of the entry point.
Raise ==
    /\ pc' = "done"
    /\ raised' = TRUE
    /\ UNCHANGED <<lateVars, indexVars, buildVars, reasonVars, graphVars, hybridVars, entry, query, top_k, llm_kind, returned>>

\* dual_level_retrieval step 2a: entity_level_retrieval.
EntityLevelRetrieval(nb, neo) ==
    /\ pc = "entity"
    /\ IF keywords[1].is_list
       THEN /\ entity_results' = entity_level_retrieval(keywords[1].items, top_k, nb, neo)
            /\ pc' = "topic"
            /\ UNCHANGED <<lateVars, indexVars, buildVars, reasonVars, graphVars, entry, query, top_k, llm_kind, keywords,
                           topic_results, dual_docs, vector_docs, merged_docs,
                           returned, raised>>
       ELSE Raise

\* dual_level_retrieval steps 2b to 5: topic_level_retrieval, then the merge,
\* sort, deduplication, truncation and conversion.
TopicLevelRetrieval(neo) ==
    /\ pc = "topic"
    /\ IF keywords[2].is_list
       THEN /\ topic_results' = topic_level_retrieval(keywords[2].items, top_k, neo)
            /\ dual_docs' = DualLevelDocuments(entity_results, topic_results', top_k)
            /\ pc' = "dual_return"
            /\ UNCHANGED <<lateVars, indexVars, buildVars, reasonVars, graphVars, entry, query, top_k, llm_kind, keywords,
                           entity_results, vector_docs, merged_docs, returned, raised>>
       ELSE Raise

\* dual_level_retrieval returns its documents to hybrid_search; the locals
\* of the finished call are gone.
DualLevelReturn ==
    /\ pc = "dual_return"
    /\ keywords' = <<KwList(<<>>), KwList(<<>>)>>
    /\ llm_kind' = Null
    /\ entity_results' = <<>>
    /\ topic_results' = <<>>
    /\ pc' = "vector"
    /\ UNCHANGED <<lateVars, indexVars, buildVars, reasonVars, graphVars, entry, query, top_k, dual_docs, vector_docs,
                   merged_docs, returned, raised>>

\* hybrid_search steps 2 to 4: vector_search_enhanced, the round-robin merge
\* and the final truncation.
VectorSearchEnhanced(out, nb) ==
    /\ pc = "vector"
    /\ vector_docs' = vector_search_enhanced(out, top_k, nb)
    /\ merged_docs' = MergeDocs(dual_docs, vector_docs')
    /\ returned' = Take(merged_docs', top_k)
    /\ pc' = "done"
    /\ UNCHANGED <<lateVars, indexVars, buildVars, reasonVars, graphVars, entry, query, top_k, llm_kind, keywords,
                   entity_results, topic_results, dual_docs, raised>>

\* The caller has its result (or exception); the module is ready for the next call.
Finish ==
    /\ pc = "done"
    /\ pc' = "idle"
    /\ entry' = Null
    /\ query' = <<>>
    /\ top_k' = 0
    /\ llm_kind' = Null
    /\ keywords' = <<KwList(<<>>), KwList(<<>>)>>
    /\ entity_results' = <<>>
    /\ topic_results' = <<>>
    /\ dual_docs' = <<>>
    /\ vector_docs' = <<>>
    /\ merged_docs' = <<>>
    /\ returned' = <<>>
    /\ raised' = FALSE
    /\ graph_query' = NoGraphQuery
    /\ graph_fail' = FALSE
    /\ llm_resp' = NoGraphResponse
    /\ strategy_docs' = <<>>
    /\ phases' = <<>>
    /\ UNCHANGED <<lateVars, indexVars, buildVars, subgraph, store_out, driver>>

\* The LLM responses of the hybrid runs: one failure and every JSON object.
HybridResponses == {r \in LLMKeywordResponses : r.kind \in {"error", "object"}}

Next ==
    \/ \E q \in HybridQueries, k \in TopKs : Call("hybrid_search", q, k)
    \/ \E resp \in HybridResponses : ExtractQueryKeywords(resp)
    \/ \E nb \in NeighborOutcomes, neo \in NeoEntityOutcomes(top_k) :
          EntityLevelRetrieval(nb, neo)
    \/ \E neo \in NeoTopicOutcomes(top_k) : TopicLevelRetrieval(neo)
    \/ DualLevelReturn
    \/ \E out \in VectorOutcomes(top_k), nb \in NeighborOutcomes :
          VectorSearchEnhanced(out, nb)
    \/ Finish

Spec == Init /\ [][Next]_vars

(***************************************************************************)
(* Properties of hybrid_search (specification Spec).                       *)
(***************************************************************************)
HybridDone == pc = "done" /\ entry = "hybrid_search" /\ ~raised

\* A merged document with the three fields hybrid_search writes taken off.
Untag(doc) ==
    [doc EXCEPT !.metadata.search_method = Null,
                !.metadata.round_robin_order = None,
                !.metadata.final_score = None]

DedupKeys(docs) == {DocId(docs[i]) : i \in 1..Len(docs)}

KeysPairwiseDistinct(dual, vec) ==
    /\ Cardinality(DedupKeys(dual)) = Len(dual)
    /\ Cardinality(DedupKeys(vec)) = Len(vec)
    /\ DedupKeys(dual) \cap DedupKeys(vec) = {}

\* C1: with pairwise distinct dedup keys over both lists and top_k >= m+n,
\* hybrid_search returns exactly m+n documents, and when both lists are
\* non-empty the first is dual_docs[0] and the second vector_docs[0].
C1_UnionAndAlternation ==
    (HybridDone /\ KeysPairwiseDistinct(dual_docs, vector_docs)
       /\ top_k >= Len(dual_docs) + Len(vector_docs))
    => /\ Len(returned) = Len(dual_docs) + Len(vector_docs)
       /\ (Len(dual_docs) >= 1 /\ Len(vector_docs) >= 1)
            => /\ Untag(returned[1]) = dual_docs[1]
               /\ Untag(returned[2]) = vector_docs[1]

C1_Witness ==
    /\ HybridDone
    /\ KeysPairwiseDistinct(dual_docs, vector_docs)
    /\ Len(dual_docs) >= 1 /\ Len(vector_docs) >= 1
    /\ top_k >= Len(dual_docs) + Len(vector_docs)
    /\ Len(returned) = 2

\* The documents in the order the round robin meets them: d0, v0, d1, v1, ...
Interleaved(dual, vec) ==
    LET n == Max(Len(dual), Len(vec))
        At(j) == LET i == (j + 1) \div 2
                 IN IF j % 2 = 1
                    THEN (IF i <= Len(dual) THEN <<dual[i]>> ELSE <<>>)
                    ELSE (IF i <= Len(vec) THEN <<vec[i]>> ELSE <<>>)
    IN Flatten([j \in 1..(2 * n) |-> At(j)])

\* C2: merged_docs never holds two documents with the same dedup key; every
\* key of the two lists occurs exactly once in it, and the copy kept is the
\* first one with that key in round-robin order.
C2_DedupFirstInRoundRobin ==
    HybridDone =>
        LET order == Interleaved(dual_docs, vector_docs)
        IN /\ \A i, j \in 1..Len(merged_docs) :
                i # j => DocId(merged_docs[i]) # DocId(merged_docs[j])
           /\ \A d \in DedupKeys(order) :
                LET first == CHOOSE i \in 1..Len(order) :
                                /\ DocId(order[i]) = d
                                /\ \A j \in 1..(i - 1) : DocId(order[j]) # d
                IN \E m \in 1..Len(merged_docs) :
                      /\ DocId(merged_docs[m]) = d
                      /\ Untag(merged_docs[m]) = order[first]

C2_Witness ==
    /\ HybridDone
    /\ \E i \in 1..Len(dual_docs), j \in 1..Len(vector_docs) :
          /\ dual_docs[i].metadata.node_id = vector_docs[j].metadata.node_id
          /\ j < i
          /\ \E m \in 1..Len(merged_docs) : Untag(merged_docs[m]) = vector_docs[j]

\* C3: no exception reaches the caller of hybrid_search: a failing
\* sub-retrieval counts as an empty list and the call returns a merge.
C3_NoExceptionReachesCaller == pc = "done" => ~raised

\* C7: a vector-origin document with adapter score s has final_score
\* max(0, 1 - s) for s <= 1 and 0 for s > 1 (a missing score is s = 0), never
\* negative; a dual-level document has final_score = relevance_score.
ExpectedSimilarity(s) == IF s > 100 THEN 0 ELSE IF 100 - s > 0 THEN 100 - s ELSE 0

C7_FinalScore ==
    HybridDone =>
        \A m \in 1..Len(merged_docs) :
            LET md == merged_docs[m].metadata
            IN IF md.search_method = "vector_enhanced"
               THEN \E h \in VecHits :
                      /\ h.text = merged_docs[m].page_content[1][2]
                      /\ md.final_score = Some(ExpectedSimilarity(GetNum(h.score, 0)))
                      /\ md.final_score[1] >= 0
                      /\ (h.score = Some(20) => md.final_score = Some(80))
                      /\ (h.score = Some(150) => md.final_score = Some(0))
               ELSE /\ md.search_method = "dual_level"
                    /\ md.final_score = md.relevance_score
                    /\ md.final_score # None

C7_Witness ==
    /\ HybridDone
    /\ \E m \in 1..Len(merged_docs) :
          /\ merged_docs[m].metadata.search_method = "vector_enhanced"
          /\ merged_docs[m].metadata.score = Some(150)
          /\ merged_docs[m].metadata.final_score = Some(0)
    /\ \E m \in 1..Len(merged_docs) :
          /\ merged_docs[m].metadata.search_method = "dual_level"
          /\ merged_docs[m].metadata.final_score = Some(95)

(***************************************************************************)
(* Properties of dual_level_retrieval and its two levels (Spec).           *)
(***************************************************************************)
\* entity_results + topic_results, the candidates of dual_level_retrieval.
Candidates == entity_results \o topic_results

\* Candidate i comes before candidate j in the descending-score ordering
\* (earlier position first on equal score).
Before(i, j) ==
    \/ Candidates[i].relevance_score > Candidates[j].relevance_score
    \/ Candidates[i].relevance_score = Candidates[j].relevance_score /\ i < j

\* Candidates that are the first of their node_id in that ordering.
Firsts ==
    {i \in 1..Len(Candidates) :
        \A j \in 1..Len(Candidates) :
            (j # i /\ Candidates[j].node_id = Candidates[i].node_id) => Before(i, j)}

\* The p-th of Firsts in the ordering.
NthFirst(p) ==
    CHOOSE i \in Firsts : Cardinality({j \in Firsts : Before(j, i)}) = p - 1

\* C8: dual_level_retrieval returns at most top_k documents with pairwise
\* distinct node_id in non-increasing relevance_score order; the candidate
\* kept for a node_id is the first one in the descending-score ordering of
\* entity-level followed by topic-level candidates, and each document carries
\* the retrieval_level of that candidate.
C8_DualLevelResult ==
    (pc = "dual_return") =>
        /\ Len(dual_docs) = Min(top_k, Cardinality(Firsts))
        /\ \A p, q \in 1..Len(dual_docs) :
              p < q => /\ dual_docs[p].metadata.node_id # dual_docs[q].metadata.node_id
                       /\ dual_docs[p].metadata.relevance_score[1]
                            >= dual_docs[q].metadata.relevance_score[1]
        /\ \A p \in 1..Len(dual_docs) :
              LET c == Candidates[NthFirst(p)]
                  md == dual_docs[p].metadata
              IN /\ md.node_id = c.node_id
                 /\ md.relevance_score = Some(c.relevance_score)
                 /\ md.retrieval_level = c.retrieval_level
                 /\ dual_docs[p].page_content = c.content
                 /\ md.result = c.metadata

C8_Witness ==
    /\ pc = "dual_return"
    /\ \E i \in 1..Len(entity_results), j \in 1..Len(topic_results) :
          /\ entity_results[i].node_id = topic_results[j].node_id
          /\ entity_results[i].relevance_score < topic_results[j].relevance_score
          /\ \E p \in 1..Len(dual_docs) :
                /\ dual_docs[p].metadata.node_id = topic_results[j].node_id
                /\ dual_docs[p].metadata.retrieval_level = "topic"

DistinctNodeIds(rs) ==
    \A i, j \in 1..Len(rs) : i # j => rs[i].node_id # rs[j].node_id

\* C9: neither the list entity_level_retrieval returns nor the list
\* topic_level_retrieval returns holds two results with the same node_id.
C9_LevelsDeduplicated ==
    /\ DistinctNodeIds(entity_results)
    /\ DistinctNodeIds(topic_results)

HasPart(content, part) == \E i \in 1..Len(content) : content[i] = part

\* C10: every relation-derived topic result comes from a relation whose two
\* endpoints are keys of the entity store, and names both of them; an
\* orphaned relation yields no result.
C10_OrphanedRelationsSkipped ==
    \A i \in 1..Len(topic_results) :
        LET r == topic_results[i]
        IN r.metadata.source = "relation" =>
             /\ r.metadata.relation_id \in DOMAIN relation_kv_store
             /\ LET rel == relation_kv_store[r.metadata.relation_id]
                IN /\ rel.source_entity \in DOMAIN entity_kv_store
                   /\ rel.target_entity \in DOMAIN entity_kv_store
                   /\ r.metadata.source_name = entity_kv_store[rel.source_entity].entity_name
                   /\ r.metadata.target_name = entity_kv_store[rel.target_entity].entity_name
                   /\ HasPart(r.content, <<"source", r.metadata.source_name>>)
                   /\ HasPart(r.content, <<"target", r.metadata.target_name>>)

\* A relation matched by a topic keyword whose target is not indexed.
C10_Witness ==
    /\ pc = "dual_return"
    /\ \E id \in DOMAIN relation_kv_store :
          LET rel == relation_kv_store[id]
          IN /\ rel.index_keys[1] \in Range(keywords[2].items)
             /\ rel.source_entity \in DOMAIN entity_kv_store
             /\ rel.target_entity \notin DOMAIN entity_kv_store
             /\ \A i \in 1..Len(topic_results) : topic_results[i].metadata.source # "relation"

(***************************************************************************)
(* extract_query_keywords on its own (specification SpecKeywords).         *)
(***************************************************************************)
InitKeywords ==
    /\ entity_kv_store = << >>
    /\ relation_kv_store = << >>
    /\ key_to_entities = << >>
    /\ key_to_relations = << >>
    /\ driver = TRUE
    /\ pc = "keywords"
    /\ entry = "extract_query_keywords"
    /\ query \in Queries
    /\ top_k = 1
    /\ llm_kind = Null
    /\ keywords = <<KwList(<<>>), KwList(<<>>)>>
    /\ entity_results = <<>>
    /\ topic_results = <<>>
    /\ dual_docs = <<>>
    /\ vector_docs = <<>>
    /\ merged_docs = <<>>
    /\ returned = <<>>
    /\ raised = FALSE
    /\ graph_query = NoGraphQuery
    /\ graph_fail = FALSE
    /\ llm_resp = NoGraphResponse
    /\ build_args = NoBuildArgs
    /\ graph_indexed = FALSE
    /\ index_before = EmptyIndex
    /\ observed = NoObservation
    /\ builds = 0
    /\ build_pos = 0
    /\ subgraph = EmptySubgraph
    /\ store_out = NoStoreOut
    /\ strategy_docs = <<>>
    /\ phases = <<>>
    /\ NoSession

NextKeywords == \E resp \in LLMKeywordResponses : ExtractQueryKeywords(resp)

SpecKeywords == InitKeywords /\ [][NextKeywords]_vars

\* The LLM call fails, or its response is empty or not valid JSON.
KeywordFallbackTaken == pc = "entity" /\ llm_kind \in {"error", "empty", "text"}

\* Tokens lo..hi of the query (1-based, hi clipped to the number of tokens).
Tokens(lo, hi) == [i \in 1..(Min(hi, Len(query)) - lo + 1) |-> query[lo + i - 1]]

\* C6 as stated: on LLM failure the result is (first min(3,n) tokens, tokens
\* 4..min(6,n)), the second list being empty when n <= 3.
C6_FallbackNextThree ==
    KeywordFallbackTaken =>
        keywords = <<KwList(Tokens(1, 3)), KwList(Tokens(4, 6))>>

\* C6 amended: on LLM failure the result is (first min(3,n) tokens, T) with
\* T the tokens 4..min(6,n) when n > 3 and all n tokens when n <= 3.
C6_FallbackKeywords ==
    KeywordFallbackTaken =>
        keywords = <<KwList(Tokens(1, 3)),
                     KwList(IF Len(query) > 3 THEN Tokens(4, 6) ELSE Tokens(1, Len(query)))>>

\* A two-token query after a failed LLM call: both lists hold both tokens.
C6_Witness ==
    /\ KeywordFallbackTaken
    /\ Len(query) = 2
    /\ keywords = <<KwList(query), KwList(query)>>

(***************************************************************************)
(* graph_rag_search as a state machine (specification SpecGraph).          *)
(***************************************************************************)
\* Names the intent classifier can put in source_entities.
EntityNames == {<<"a">>}
MaxSources == 1
GraphDepths == {None, Some(1), Some(3)}

\* What the LLM can answer to the intent prompt: the call raises, the content
\* is not JSON, the JSON value is not an object, or it is an object.
LLMGraphResponses ==
    {GraphResponse(k, Absent, KwNone, None) : k \in {"error", "text", "array"}}
    \cup {GraphResponse("object", t, KwList(srcs), d) :
            t \in QueryTypes \cup {"bogus", Absent, Null},
            srcs \in SeqsUpTo(EntityNames, MaxSources),
            d \in GraphDepths}

\* initialize() leaves the driver set or unset.
InitGraph ==
    /\ entity_kv_store = << >>
    /\ relation_kv_store = << >>
    /\ key_to_entities = << >>
    /\ key_to_relations = << >>
    /\ driver \in BOOLEAN
    /\ NoRequest

\* graph_rag_search(query, top_k): returns [] at once without a driver.
GraphRagSearch(q, k) ==
    /\ pc = "idle"
    /\ entry' = "graph_rag_search"
    /\ query' = q
    /\ top_k' = k
    /\ pc' = IF driver THEN "understand" ELSE "done"
    /\ phases' = IF driver THEN <<"RECEIVED">> ELSE <<"RECEIVED", "DONE">>
    /\ UNCHANGED <<lateVars, indexVars, buildVars, subgraph, store_out, strategy_docs, graphVars, hybridVars,
                   llm_kind, returned, raised>>

\* Step 1: understand_graph_query.
UnderstandGraphQuery(resp) ==
    /\ pc = "understand"
    /\ graph_query' = understand_graph_query(query, resp)
    /\ llm_resp' = resp
    /\ pc' = "strategy"
    /\ phases' = Append(phases, "INTENT_CLASSIFIED")
    /\ UNCHANGED <<lateVars, indexVars, buildVars, subgraph, store_out, strategy_docs, hybridVars, entry, query, top_k, llm_kind, returned,
                   raised, graph_fail, driver>>

\* Steps 2 and 3: the strategy of the query type, ranking, results[:top_k].
\* strategy_docs keeps the documents of the strategy before the ranking.
\* graph_fail records that every graph store call of this search raised.
ExecuteStrategy(paths_out, sub_out) ==
    /\ pc = "strategy"
    /\ returned' = Take(rank_by_graph_relevance(
                            StrategyDocuments(graph_query, query, driver, paths_out, sub_out)),
                        top_k)
    /\ strategy_docs' = StrategyDocuments(graph_query, query, driver, paths_out, sub_out)
    /\ graph_fail' = (~paths_out.ok /\ sub_out.kind = "fail")
    /\ phases' = phases \o StrategyPhases(graph_query.query_type) \o <<"RANKED", "DONE">>
    /\ pc' = "done"
    /\ UNCHANGED <<lateVars, indexVars, buildVars, subgraph, store_out, hybridVars, entry, query, top_k,
                   llm_kind, raised, graph_query, llm_resp, driver>>

NextGraph ==
    \/ \E q \in ShortQueries, k \in TopKs : GraphRagSearch(q, k)
    \/ \E resp \in LLMGraphResponses : UnderstandGraphQuery(resp)
    \/ \E paths_out \in PathOutcomes, sub_out \in SubgraphOutcomes :
          ExecuteStrategy(paths_out, sub_out)
    \/ Finish

SpecGraph == InitGraph /\ [][NextGraph]_vars

GraphSearchDone == pc = "done" /\ entry = "graph_rag_search"

\* C4: when the driver exists and every graph store call raises,
\* graph_rag_search returns the empty list and does not raise, whatever the
\* query type and also when the classifier fell back to SUBGRAPH.
C4_EmptyWhenStoreFails ==
    (GraphSearchDone /\ driver /\ graph_fail) => (returned = <<>> /\ ~raised)

\* The response is one of the cases of the fallback: the LLM call raised, the
\* content is not a JSON object, or query_type is present and unrecognized.
GraphFallbackCase ==
    /\ pc = "strategy"
    /\ \/ llm_resp.kind \in {"error", "text", "array"}
       \/ llm_resp.kind = "object" /\ llm_resp.query_type \notin QueryTypes \cup {Absent}

InitIndex ==
    /\ entity_kv_store = << >>
    /\ relation_kv_store = << >>
    /\ key_to_entities = << >>
    /\ key_to_relations = << >>
    /\ driver = TRUE
    /\ NoRequest

\* create_entity_key_values(cities=..., attractions=...): the stores are
\* updated in place, nothing in the function raises.
CreateEntityKeyValues(args) ==
    /\ pc = "idle"
    /\ builds < MaxBuilds
    /\ entity_kv_store' = create_entity_key_values(CurrentIndex, args).entity_kv_store
    /\ key_to_entities' = create_entity_key_values(CurrentIndex, args).key_to_entities
    /\ build_args' = args
    /\ index_before' = CurrentIndex
    /\ builds' = builds + 1
    /\ entry' = "create_entity_key_values"
    /\ query' = <<>>
    /\ returned' = <<>>
    /\ UNCHANGED <<lateVars, relation_kv_store, key_to_relations, reasonVars, graphVars,
                   hybridVars, pc, top_k, llm_kind, raised, graph_indexed, observed, build_pos>>

\* get_entities_by_key(key)
GetEntitiesByKey(key) ==
    /\ pc = "idle"
    /\ pc' = "done"
    /\ entry' = "get_entities_by_key"
    /\ query' = <<key>>
    /\ returned' = get_entities_by_key(key)
    /\ UNCHANGED <<lateVars, indexVars, buildVars, reasonVars, graphVars, hybridVars,
                   top_k, llm_kind, raised>>

\* The caller has the result of its lookup.
LookupReturn ==
    /\ pc = "done"
    /\ pc' = "idle"
    /\ entry' = Null
    /\ query' = <<>>
    /\ returned' = <<>>
    /\ build_args' = NoBuildArgs
    /\ index_before' = EmptyIndex
    /\ UNCHANGED <<lateVars, indexVars, reasonVars, graphVars, hybridVars, top_k, llm_kind,
                   raised, graph_indexed, observed, builds, build_pos>>

\* Relationship triples (source_id, relation_type, target_id) a caller passes
\* to create_relation_key_values, at most MaxTriples in one call.
MaxTriples == 3
Triples == {<<"n1", "HAS_ATTRACTION", "n2">>, <<"n2", "NEAR", "n1">>}

\* The generated relation identifiers, in generation order.
RelNames == <<"r1", "r2", "r3", "r4", "r5", "r6">>

Position(seq, x) == CHOOSE i \in 1..Len(seq) : seq[i] = x

\* create_relation_key_values(triples): a RelationKeyValue with a fresh
\* relation_id for each triple whose endpoints are both in the entity store,
\* indexed under its relation type.
RECURSIVE create_relation_key_values(_, _)
create_relation_key_values(ix, triples) ==
    IF triples = <<>> THEN ix
    ELSE LET t == Head(triples)
             used == {Position(RelNames, r) : r \in DOMAIN ix.relation_kv_store}
             id == RelNames[IF used = {} THEN 1
                            ELSE 1 + (CHOOSE n \in used : \A m \in used : m <= n)]
             next == IF t[1] \in DOMAIN ix.entity_kv_store /\ t[3] \in DOMAIN ix.entity_kv_store
                     THEN [ix EXCEPT
                             !.relation_kv_store =
                                 Put(@, id, RelationKeyValue(id, t[2], t[2], t[1], t[3])),
                             !.key_to_relations = AppendTo(@, t[2], id)]
                     ELSE ix
         IN create_relation_key_values(next, Tail(triples))

\* A deduplication that drops only the last entry of each duplicated triple.
AllButLastDuplicate(store) ==
    {r \in DOMAIN store :
        ~ /\ \E q \in DOMAIN store :
                /\ Position(RelNames, q) < Position(RelNames, r)
                /\ store[q].value_content = store[r].value_content
          /\ ~\E q \in DOMAIN store :
                /\ Position(RelNames, q) > Position(RelNames, r)
                /\ store[q].value_content = store[r].value_content}

\* The relations deduplication keeps: those whose (source_entity,
\* relation_type, target_entity) no earlier entry has.
KeptRelations(store) ==
    {r \in DOMAIN store :
        ~\E q \in DOMAIN store :
            /\ Position(RelNames, q) < Position(RelNames, r)
            /\ store[q].value_content = store[r].value_content}

\* The first occurrence of each element.
RECURSIVE Unique(_)
Unique(seq) ==
    IF seq = <<>> THEN <<>>
    ELSE LET front == Unique(SubSeq(seq, 1, Len(seq) - 1))
         IN IF seq[Len(seq)] \in Range(front) THEN front ELSE Append(front, seq[Len(seq)])

\* deduplicate_entities_and_relations(): duplicate relation entries and
\* duplicate entity entries of one node_id are removed; the entity store is
\* keyed by node_id and so holds no two entries of one node_id.
deduplicate_entities_and_relations(ix) ==
    [ix EXCEPT
        !.relation_kv_store = [r \in KeptRelations(ix.relation_kv_store) |->
                                  ix.relation_kv_store[r]],
        !.key_to_relations = [k \in DOMAIN ix.key_to_relations |->
                                  SelectSeq(ix.key_to_relations[k],
                                            LAMBDA r : r \in KeptRelations(ix.relation_kv_store))],
        !.key_to_entities = [k \in DOMAIN ix.key_to_entities |->
                                  Unique(ix.key_to_entities[k])]]

\* create_relation_key_values(triples)
CreateRelationKeyValues(triples) ==
    /\ pc = "idle"
    /\ Cardinality(DOMAIN relation_kv_store) + Len(triples) <= MaxTriples
    /\ relation_kv_store' = create_relation_key_values(CurrentIndex, triples).relation_kv_store
    /\ key_to_relations' = create_relation_key_values(CurrentIndex, triples).key_to_relations
    /\ build_args' = NoBuildArgs
    /\ index_before' = CurrentIndex
    /\ entry' = "create_relation_key_values"
    /\ query' = <<>>
    /\ returned' = <<>>
    /\ UNCHANGED <<lateVars, entity_kv_store, key_to_entities, reasonVars, graphVars, hybridVars,
                   pc, top_k, llm_kind, raised, graph_indexed, observed, builds, build_pos>>

\* deduplicate_entities_and_relations()
DeduplicateEntitiesAndRelations ==
    /\ pc = "idle"
    /\ relation_kv_store' = deduplicate_entities_and_relations(CurrentIndex).relation_kv_store
    /\ key_to_relations' = deduplicate_entities_and_relations(CurrentIndex).key_to_relations
    /\ key_to_entities' = deduplicate_entities_and_relations(CurrentIndex).key_to_entities
    /\ build_args' = NoBuildArgs
    /\ index_before' = CurrentIndex
    /\ entry' = "deduplicate_entities_and_relations"
    /\ query' = <<>>
    /\ returned' = <<>>
    /\ UNCHANGED <<lateVars, entity_kv_store, reasonVars, graphVars, hybridVars, pc, top_k,
                   llm_kind, raised, graph_indexed, observed, builds, build_pos>>

NextIndex ==
    \/ \E args \in EntityArgs : CreateEntityKeyValues(args)
    \/ \E key \in Keys \cup {"c"} : GetEntitiesByKey(key)
    \/ LookupReturn

SpecIndex == InitIndex /\ [][NextIndex]_vars

\* Complete entity records only, for the runs that go on to relations.
CompleteArgs ==
    {BuildArgs(KwList(c), KwList(a)) :
        c \in SeqsUpTo({r \in CityRecords : Complete(r)}, MaxRecs),
        a \in SeqsUpTo({r \in AttractionRecords : Complete(r) /\ r.name = "a"}, 1)}

\* What loading the entities can do.  With a graph data module,
\* load_graph_data raises or fills the collections with GraphNode objects;
\* without one, _load_entities_from_neo4j reads neo4j Node objects, which
\* have an id and neither a name nor a node_name attribute, or fails.
LoadOutcomes(has_module) ==
    {[ok |-> FALSE, args |-> NoBuildArgs]}
    \cup {[ok |-> TRUE, args |-> a] :
            a \in IF has_module THEN CompleteArgs
                  ELSE {BuildArgs(KwList(c), KwList(<<>>)) :
                          c \in SeqsUpTo({EntityRecord("n1", Absent, Absent)}, 1)}}

\* What _extract_relationships_from_graph can return: the triples read, or
\* the triples read before the failure.
RelationOutcomes ==
    {[ok |-> o, triples |-> t] : o \in BOOLEAN, t \in SeqsUpTo(Triples, MaxTriples)}

\* HybridRetrievalModule._build_graph_index().  A failure of load_graph_data
\* ends the build in the outer except; the two direct reads catch their own
\* failures and the build goes on.  Nothing is raised or returned.
BuildGraphIndex(has_module, load, rels) ==
    /\ pc = "idle"
    /\ builds < MaxBuilds
    /\ Cardinality(DOMAIN relation_kv_store) + Len(rels.triples) <= MaxTriples
    /\ LET skipped == graph_indexed
           aborted == has_module /\ ~load.ok
           loaded == IF load.ok THEN create_entity_key_values(CurrentIndex, load.args)
                     ELSE CurrentIndex
           built == deduplicate_entities_and_relations(
                        create_relation_key_values(loaded, rels.triples))
           ix == IF skipped \/ aborted THEN CurrentIndex ELSE built
       IN /\ entity_kv_store' = ix.entity_kv_store
          /\ key_to_entities' = ix.key_to_entities
          /\ relation_kv_store' = ix.relation_kv_store
          /\ key_to_relations' = ix.key_to_relations
          /\ graph_indexed' = (graph_indexed \/ ~aborted)
          /\ graph_fail' = (~skipped /\ (~load.ok \/ (~aborted /\ ~rels.ok)))
          /\ builds' = IF skipped THEN builds ELSE builds + 1
    /\ build_args' = NoBuildArgs
    /\ index_before' = CurrentIndex
    /\ entry' = "_build_graph_index"
    /\ raised' = FALSE
    /\ query' = <<>>
    /\ returned' = <<>>
    /\ UNCHANGED <<lateVars, reasonVars, hybridVars, pc, top_k, llm_kind, observed, build_pos,
                   graph_query, driver, llm_resp>>

\* The construction call by call (specification SpecBuild): entity builds,
\* relation builds and deduplication.
NextBuild ==
    \/ \E args \in CompleteArgs : CreateEntityKeyValues(args)
    \/ \E triples \in SeqsUpTo(Triples, MaxTriples) : CreateRelationKeyValues(triples)
    \/ DeduplicateEntitiesAndRelations

SpecBuild == InitIndex /\ [][NextBuild]_vars

\* The construction as HybridRetrievalModule.initialize runs it
\* (specification SpecInitialize), followed by lookups; a build that was
\* aborted can be run again.
NextInitialize ==
    \/ \E has_module \in BOOLEAN :
          \E load \in LoadOutcomes(has_module), rels \in RelationOutcomes :
             BuildGraphIndex(has_module, load, rels)
    \/ \E key \in Keys : GetEntitiesByKey(key)
    \/ LookupReturn

SpecInitialize == InitIndex /\ [][NextInitialize]_vars

\* The records of the last create_entity_key_values call, in loop order,
\* each with the entity_type of its loop.
PassedRecords ==
    [i \in 1..Len(ArgItems(build_args.cities)) |->
        [rec |-> ArgItems(build_args.cities)[i], type |-> "City"]]
    \o [i \in 1..Len(ArgItems(build_args.attractions)) |->
        [rec |-> ArgItems(build_args.attractions)[i], type |-> "Attraction"]]

\* C11: after any build every EntityKeyValue of entity_kv_store has a
\* non-empty entity_name and sits under a non-empty key equal to its metadata
\* node_id; a call skips the records with a missing or empty identifier or
\* name without raising and still indexes every other record it was given.
C11_IncompleteRecordsSkipped ==
    /\ \A id \in DOMAIN entity_kv_store :
          /\ ~Falsy(id)
          /\ ~Falsy(entity_kv_store[id].entity_name)
          /\ entity_kv_store[id].metadata.node_id = id
    /\ \A key \in DOMAIN key_to_entities : ~Falsy(key)
    /\ entry = "create_entity_key_values" =>
          /\ ~raised
          /\ \A i \in 1..Len(PassedRecords) :
                Complete(PassedRecords[i].rec) =>
                    /\ RecordId(PassedRecords[i].rec) \in DOMAIN entity_kv_store
                    /\ RecordName(PassedRecords[i].rec) \in DOMAIN key_to_entities
                    /\ RecordId(PassedRecords[i].rec)
                          \in Range(key_to_entities[RecordName(PassedRecords[i].rec)])

\* A call that met an incomplete record before a complete one of the same
\* collection, and indexed the complete one.
C11_Witness ==
    /\ entry = "create_entity_key_values"
    /\ \E i, j \in 1..Len(ArgItems(build_args.cities)) :
          /\ i < j
          /\ ~Complete(ArgItems(build_args.cities)[i])
          /\ Complete(ArgItems(build_args.cities)[j])
          /\ RecordId(ArgItems(build_args.cities)[j]) \in DOMAIN entity_kv_store

\* C12: when the complete records of a create_entity_key_values call have
\* pairwise distinct identifiers, get_entities_by_key(name) returns the
\* EntityKeyValue of every one of them that carries that name, whether they
\* came in the same collection or in different ones.
C12_SharedNameKeepsAll ==
    (/\ entry = "get_entities_by_key"
     /\ \A i, j \in 1..Len(PassedRecords) :
           (i # j /\ Complete(PassedRecords[i].rec) /\ Complete(PassedRecords[j].rec))
              => RecordId(PassedRecords[i].rec) # RecordId(PassedRecords[j].rec))
    => \A i \in 1..Len(PassedRecords) :
          (Complete(PassedRecords[i].rec) /\ RecordName(PassedRecords[i].rec) = query[1])
             => EntityKeyValue(RecordId(PassedRecords[i].rec),
                               RecordName(PassedRecords[i].rec),
                               PassedRecords[i].type) \in Range(returned)

\* A lookup of a name that a city and an attraction of the last call share,
\* returning both.
C12_Witness ==
    /\ entry = "get_entities_by_key"
    /\ query = <<"a">>
    /\ build_args = BuildArgs(KwList(<<EntityRecord(Absent, "n1", "a")>>),
                              KwList(<<EntityRecord(Absent, "n2", "a")>>))
    /\ {EntityKeyValue("n1", "a", "City"), EntityKeyValue("n2", "a", "Attraction")}
          \subseteq Range(returned)

\* The same with both entities in one collection.
C12_WitnessSameCollection ==
    /\ entry = "get_entities_by_key"
    /\ query = <<"a">>
    /\ build_args = BuildArgs(KwList(<<EntityRecord(Absent, "n1", "a"),
                                       EntityRecord("n2", Absent, "a")>>), KwNone)
    /\ {EntityKeyValue("n1", "a", "City"), EntityKeyValue("n2", "a", "City")}
          \subseteq Range(returned)

\* C13: deduplicate_entities_and_relations is idempotent on every state of
\* the two stores and the two key mappings: deduplicating a deduplicated
\* index changes nothing, and the index a deduplication call leaves is one a
\* second call leaves as it is.
C13_DeduplicateIdempotent ==
    /\ deduplicate_entities_and_relations(deduplicate_entities_and_relations(CurrentIndex))
          = deduplicate_entities_and_relations(CurrentIndex)
    /\ entry = "deduplicate_entities_and_relations" =>
          /\ CurrentIndex = deduplicate_entities_and_relations(index_before)
          /\ deduplicate_entities_and_relations(CurrentIndex) = CurrentIndex

\* A deduplication call that removed a relation entry and a repeated entity
\* identifier.
C13_Witness ==
    /\ entry = "deduplicate_entities_and_relations"
    /\ DOMAIN relation_kv_store # DOMAIN index_before.relation_kv_store
    /\ key_to_entities # index_before.key_to_entities

\* C14: a build during which the read of the entities or of the
\* relationships failed reports the failure to its caller.
C14_ReadFailureReported ==
    (entry = "_build_graph_index" /\ graph_fail) => raised

\* The build went through although a read failed: the module counts as
\* indexed and the caller was told nothing.
C14_SilentBuild ==
    /\ entry = "_build_graph_index"
    /\ graph_fail
    /\ graph_indexed
    /\ ~raised

(***************************************************************************)
(* A build and a query on one index, without synchronisation               *)
(* (specification SpecRebuild).  create_entity_key_values writes the live   *)
(* stores record by record and takes no lock; a query of another thread     *)
(* can run between any two loop iterations.                                 *)
(***************************************************************************)
\* An index an earlier, finished build left.
InitRebuild ==
    /\ \E old \in CompleteArgs :
          /\ entity_kv_store = create_entity_key_values(EmptyIndex, old).entity_kv_store
          /\ key_to_entities = create_entity_key_values(EmptyIndex, old).key_to_entities
    /\ relation_kv_store = << >>
    /\ key_to_relations = << >>
    /\ driver = TRUE
    /\ NoRequest

\* create_entity_key_values(...) is entered.
StartBuild(args) ==
    /\ pc = "idle"
    /\ builds < MaxBuilds
    /\ pc' = "building"
    /\ build_args' = args
    /\ build_pos' = 0
    /\ index_before' = CurrentIndex
    /\ builds' = builds + 1
    /\ observed' = NoObservation
    /\ entry' = "create_entity_key_values"
    /\ UNCHANGED <<lateVars, indexVars, reasonVars, graphVars, hybridVars, query, top_k,
                   llm_kind, returned, raised, graph_indexed>>

\* One iteration of the loops of create_entity_key_values.
IndexNextRecord ==
    /\ pc = "building"
    /\ build_pos < Len(PassedRecords)
    /\ entity_kv_store' = IndexRecord(CurrentIndex, PassedRecords[build_pos + 1].rec,
                                      PassedRecords[build_pos + 1].type).entity_kv_store
    /\ key_to_entities' = IndexRecord(CurrentIndex, PassedRecords[build_pos + 1].rec,
                                      PassedRecords[build_pos + 1].type).key_to_entities
    /\ build_pos' = build_pos + 1
    /\ UNCHANGED <<lateVars, relation_kv_store, key_to_relations, reasonVars, graphVars,
                   hybridVars, pc, entry, query, top_k, llm_kind, returned, raised,
                   build_args, graph_indexed, index_before, observed, builds>>

\* create_entity_key_values returns.
EndBuild ==
    /\ pc = "building"
    /\ build_pos = Len(PassedRecords)
    /\ pc' = "idle"
    /\ UNCHANGED <<lateVars, indexVars, buildVars, reasonVars, graphVars, hybridVars, entry,
                   query, top_k, llm_kind, returned, raised>>

\* get_entities_by_key(key) of a query, at any moment.
ConcurrentQuery(key) ==
    /\ observed' = [key |-> key, result |-> get_entities_by_key(key),
                    during |-> (pc = "building")]
    /\ UNCHANGED <<lateVars, indexVars, reasonVars, graphVars, hybridVars, pc, entry, query,
                   top_k, llm_kind, returned, raised, build_args, graph_indexed,
                   index_before, builds, build_pos>>

NextRebuild ==
    \/ \E args \in CompleteArgs : StartBuild(args)
    \/ IndexNextRecord
    \/ EndBuild
    \/ \E key \in Keys : ConcurrentQuery(key)

SpecRebuild == InitRebuild /\ [][NextRebuild]_vars

\* What get_entities_by_key(key) returns on the index ix.
LookupIn(ix, key) ==
    IF key \notin DOMAIN ix.key_to_entities THEN <<>>
    ELSE [i \in 1..Len(ix.key_to_entities[key]) |->
            ix.entity_kv_store[ix.key_to_entities[key][i]]]

\* C15: a lookup made while a build is running returns what the index held
\* before the build or what it holds once the build is complete.
C15_QuerySeesOldOrNew ==
    observed.during =>
        observed.result \in
            {LookupIn(index_before, observed.key),
             LookupIn(create_entity_key_values(index_before, build_args), observed.key)}

\* A lookup during a build returned some of the entities the build adds
\* under the key and not the others.
C15_PartialIndexObserved ==
    /\ observed.during
    /\ Len(LookupIn(index_before, observed.key)) < Len(observed.result)
    /\ Len(observed.result)
          < Len(LookupIn(create_entity_key_values(index_before, build_args), observed.key))

(***************************************************************************)
(* GraphRAGRetrieval.adaptive_query_planning (specification SpecPlan).      *)
(* A query is the sequence of its words; the seven complexity indicators    *)
(* are rendered what, how, why, which, relation, influence, reason.  The    *)
(* test is `indicator in query`, a substring test, and the indicator        *)
(* rendered why contains the one rendered what.                             *)
(***************************************************************************)
ComplexityIndicators == <<"what", "how", "why", "which", "relation", "influence", "reason">>

\* indicator in query
Occurs(indicator, q) ==
    indicator \in Range(q) \/ (indicator = "what" /\ "why" \in Range(q))

\* A count of the indicators that are words of the query.
analyze_query_complexity_words(q) ==
    Min(100 * Cardinality({i \in 1..Len(ComplexityIndicators) :
                              ComplexityIndicators[i] \in Range(q)}), 700)

\* _analyze_query_complexity: min(score / 7, 1.0), kept in 700ths.
analyze_query_complexity(q) ==
    Min(100 * Cardinality({i \in 1..Len(ComplexityIndicators) :
                              Occurs(ComplexityIndicators[i], q)}), 700)

\* adaptive_query_planning: the thresholds 0.3 and 0.7 are 210 and 490.
adaptive_query_planning(q) ==
    IF analyze_query_complexity(q) < 210
    THEN <<GraphQuery("entity_relation", KwList(<<q>>), KwNone, KwNone, 1, 20)>>
    ELSE IF analyze_query_complexity(q) < 490
    THEN <<GraphQuery("multi_hop", KwList(<<q>>), KwNone, KwNone, 2, 50)>>
    ELSE <<GraphQuery("subgraph", KwList(<<q>>), KwNone, KwNone, 3, 100),
           GraphQuery("multi_hop", KwList(<<q>>), KwNone, KwNone, 3, 50)>>

\* Queries: any choice of indicators, in a fixed order, with or without a
\* further word.
PlanQueries ==
    {SelectSeq(ComplexityIndicators \o <<"a">>, LAMBDA w : w \in S) :
        S \in SUBSET (Range(ComplexityIndicators) \cup {"a"})}

AdaptiveQueryPlanning(q) ==
    /\ pc = "idle"
    /\ pc' = "done"
    /\ entry' = "adaptive_query_planning"
    /\ query' = q
    /\ returned' = adaptive_query_planning(q)
    /\ UNCHANGED <<lateVars, indexVars, buildVars, reasonVars, graphVars, hybridVars, top_k,
                   llm_kind, raised>>

NextPlan ==
    \/ \E q \in PlanQueries : AdaptiveQueryPlanning(q)
    \/ Finish

SpecPlan == InitIndex /\ [][NextPlan]_vars

\* C16: the plans depend only on the number c of indicators occurring in
\* the query: c <= 2 gives one ENTITY_RELATION plan of depth 1, c in {3, 4}
\* one MULTI_HOP plan of depth 2, c >= 5 a SUBGRAPH plan of depth 3 followed
\* by a MULTI_HOP plan of depth 3; every plan has source_entities = [query].
C16_PlansByIndicatorCount ==
    entry = "adaptive_query_planning" =>
        LET c == Cardinality({w \in Range(ComplexityIndicators) : Occurs(w, query)})
            shape == [i \in 1..Len(returned) |->
                        <<returned[i].query_type, returned[i].max_depth>>]
        IN /\ c <= 2 => shape = <<<<"entity_relation", 1>>>>
           /\ c \in {3, 4} => shape = <<<<"multi_hop", 2>>>>
           /\ c >= 5 => shape = <<<<"subgraph", 3>>, <<"multi_hop", 3>>>>
           /\ \A i \in 1..Len(returned) : returned[i].source_entities = KwList(<<query>>)

\* A query in which three indicators occur, one of them only inside
\* another, planned as one MULTI_HOP query.
C16_Witness ==
    /\ entry = "adaptive_query_planning"
    /\ query = <<"why", "relation">>
    /\ Len(returned) = 1
    /\ returned[1].query_type = "multi_hop"

(***************************************************************************)
(* extract_knowledge_subgraph followed by graph_structure_reasoning, called *)
(* on their own with a SUBGRAPH query of any max_nodes.                     *)
(***************************************************************************)
MaxNodes == 2
MaxNeighbors == 2

\* What the traversal can match around the source city "a": up to
\* MaxNeighbors distinct neighbours and the relationships leading to them.
SubgraphMatches ==
    LET pool == {GraphNode({"Attraction"}, "b"), GraphNode({"Hotel"}, "c"),
                 GraphNode({"Food"}, "d")}
        neighbors == {n \in SeqsUpTo(pool, MaxNeighbors) :
                         \A i, j \in 1..Len(n) : n[i] = n[j] => i = j}
    IN {KnowledgeSubgraph(<<GraphNode({"City"}, "a")>>, n, r) :
           n \in neighbors, r \in SeqsUpTo({"HAS_ATTRACTION", "NEARBY"}, 2)}

SubgraphStoreOutcomes ==
    {[kind |-> k, record |-> EmptySubgraph] : k \in {"fail", "none", "unconvertible"}}
    \cup {[kind |-> "record", record |-> r] : r \in SubgraphMatches}

SubgraphQueries ==
    {GraphQuery("subgraph", KwList(<<<<"a">>>>), KwNone, KwNone, 2, n) : n \in 1..MaxNodes}

ReasoningQueries == {<<>>, <<"travel">>, <<"lodging">>, <<"travel", "lodging">>}

InitSubgraph ==
    /\ entity_kv_store = << >>
    /\ relation_kv_store = << >>
    /\ key_to_entities = << >>
    /\ key_to_relations = << >>
    /\ driver \in BOOLEAN
    /\ NoRequest

\* extract_knowledge_subgraph(graph_query); store_out keeps what the store did.
ExtractKnowledgeSubgraph(gq, out) ==
    /\ pc = "idle"
    /\ entry' = "extract_knowledge_subgraph"
    /\ graph_query' = gq
    /\ store_out' = out
    /\ subgraph' = extract_knowledge_subgraph(gq, driver, out)
    /\ graph_fail' = (out.kind = "fail")
    /\ pc' = "reason"
    /\ UNCHANGED <<lateVars, indexVars, buildVars, hybridVars, strategy_docs, phases, query, top_k, llm_kind,
                   returned, raised, driver, llm_resp>>

\* graph_structure_reasoning(subgraph, query); returned holds the chains.
GraphStructureReasoning(q) ==
    /\ pc = "reason"
    /\ entry' = "graph_structure_reasoning"
    /\ query' = q
    /\ returned' = graph_structure_reasoning(subgraph, q)
    /\ pc' = "done"
    /\ UNCHANGED <<lateVars, indexVars, buildVars, reasonVars, graphVars, hybridVars, top_k, llm_kind,
                   raised>>

\* The caller drops the subgraph and the chains.
SubgraphReturn ==
    /\ pc = "done"
    /\ pc' = "idle"
    /\ entry' = Null
    /\ query' = <<>>
    /\ returned' = <<>>
    /\ graph_query' = NoGraphQuery
    /\ graph_fail' = FALSE
    /\ subgraph' = EmptySubgraph
    /\ store_out' = NoStoreOut
    /\ UNCHANGED <<lateVars, indexVars, buildVars, hybridVars, strategy_docs, phases, top_k, llm_kind, raised,
                   driver, llm_resp>>

NextSubgraph ==
    \/ \E gq \in SubgraphQueries, out \in SubgraphStoreOutcomes :
          ExtractKnowledgeSubgraph(gq, out)
    \/ \E q \in ReasoningQueries : GraphStructureReasoning(q)
    \/ SubgraphReturn

SpecSubgraph == InitSubgraph /\ [][NextSubgraph]_vars

ReasoningDone == pc = "done" /\ entry = "graph_structure_reasoning"

\* The chains generated for the extracted subgraph, in generation order.
GeneratedChains ==
    [i \in 1..Len(identify_reasoning_patterns(subgraph)) |->
        build_reasoning_chain(identify_reasoning_patterns(subgraph)[i], subgraph)]

\* The generated chains whose relevance score is at least 2, in generation order.
RelevantChains == SelectSeq(GeneratedChains, LAMBDA c : ChainScore(c, query) >= 2)

\* C17 (as the code has it): graph_structure_reasoning returns at most 3
\* chains; when at most 3 chains were generated it returns all of them in
\* generation order whatever their scores; when more were generated it
\* returns the first two generated chains if fewer than 2 score >= 2 and
\* otherwise the first three of the chains scoring >= 2, in generation order.
C17_ChainsValidated ==
    ReasoningDone =>
        /\ Len(returned) <= 3
        /\ Len(GeneratedChains) <= 3 => returned = GeneratedChains
        /\ (Len(GeneratedChains) > 3 /\ Len(RelevantChains) < 2) =>
              returned = Take(GeneratedChains, 2)
        /\ (Len(GeneratedChains) > 3 /\ Len(RelevantChains) >= 2) =>
              returned = Take(RelevantChains, 3)

\* More than three chains were generated and the low-scoring ones dropped,
\* and (in another call) three chains were all kept with one scoring below 2.
C17_Witness ==
    /\ ReasoningDone
    /\ Len(GeneratedChains) > 3
    /\ Len(RelevantChains) >= 2
    /\ Len(returned) < Len(GeneratedChains)

C17_WitnessFirstTwo ==
    /\ ReasoningDone
    /\ Len(GeneratedChains) > 3
    /\ Len(RelevantChains) < 2
    /\ Len(returned) = 2

\* C17 (as stated): a chain scoring below 2 is returned only when fewer than
\* 2 chains score >= 2, and then exactly the first two generated chains are
\* returned; otherwise only chains scoring >= 2 are returned, in generation
\* order, at most 3.
C17_LowScoreOnlyAsFirstTwo ==
    ReasoningDone =>
        /\ Len(returned) <= 3
        /\ IF Len(RelevantChains) < 2
           THEN returned = Take(GeneratedChains, 2)
           ELSE returned = Take(RelevantChains, 3)

ExtractionDone == pc = "reason" /\ entry = "extract_knowledge_subgraph"

C18_WitnessQueryRaises ==
    /\ ExtractionDone
    /\ driver
    /\ store_out.kind = "fail"
    /\ subgraph = EmptySubgraph

\* The traversal matched the source and at least one neighbour, and the
\* match converts to a KnowledgeSubgraph.
NeighborsReachable ==
    /\ ExtractionDone
    /\ driver
    /\ store_out.kind = "record"
    /\ store_out.record.connected_nodes # <<>>

\* C19: for a SUBGRAPH query extract_knowledge_subgraph returns the nodes
\* within max_depth hops of the source entities truncated to at most
\* max_nodes nodes: connected_nodes never exceeds max_nodes, and when more
\* than max_nodes nodes are reachable the result is the capped node set
\* rather than no result.
C19_CappedAtMaxNodes ==
    NeighborsReachable =>
        /\ Len(subgraph.connected_nodes) <= graph_query.max_nodes
        /\ subgraph.central_nodes = store_out.record.central_nodes
        /\ subgraph.connected_nodes =
              Take(store_out.record.connected_nodes, graph_query.max_nodes)

\* More than max_nodes nodes are reachable and the empty subgraph comes back.
C19_OverCapReturnsEmpty ==
    /\ NeighborsReachable
    /\ Len(store_out.record.connected_nodes) > graph_query.max_nodes
    /\ subgraph = EmptySubgraph

\* relevance_score of a document, 0.0 when the metadata has none.
RelevanceOf(d) == GetNum(d.metadata.relevance_score, 0)

\* C20: graph_rag_search(query, top_k) returns at most top_k documents in
\* non-increasing order of relevance_score, and they are the top_k
\* highest-scored of all documents the executed strategy produced: every
\* returned document is one of them, and for every score the result holds
\* as many documents at or above it as the strategy produced, up to top_k.
C20_TopKByRelevance ==
    (GraphSearchDone /\ driver) =>
        /\ Len(returned) <= top_k
        /\ \A i, j \in 1..Len(returned) :
              i < j => RelevanceOf(returned[i]) >= RelevanceOf(returned[j])
        /\ Range(returned) \subseteq Range(strategy_docs)
        /\ \A v \in {0} \cup {RelevanceOf(strategy_docs[i]) : i \in 1..Len(strategy_docs)} :
              Cardinality({i \in 1..Len(returned) : RelevanceOf(returned[i]) >= v})
                = Min(top_k, Cardinality({i \in 1..Len(strategy_docs) :
                                             RelevanceOf(strategy_docs[i]) >= v}))

\* The strategy produced more than top_k documents, the best of them last.
C20_Witness ==
    /\ GraphSearchDone
    /\ driver
    /\ Len(strategy_docs) > top_k
    /\ RelevanceOf(strategy_docs[Len(strategy_docs)]) > RelevanceOf(strategy_docs[1])
    /\ Len(returned) = top_k
    /\ returned[1] = strategy_docs[Len(strategy_docs)]

(***************************************************************************)
(* The phases of one graph_rag_search call.  The call is straight-line code *)
(* with no loop: once started, each of its steps is taken.                  *)
(***************************************************************************)
SpecGraphLive ==
    /\ SpecGraph
    /\ WF_vars(\E resp \in LLMGraphResponses : UnderstandGraphQuery(resp))
    /\ WF_vars(\E paths_out \in PathOutcomes, sub_out \in SubgraphOutcomes :
                  ExecuteStrategy(paths_out, sub_out))

PhaseOrder ==
    <<"RECEIVED", "INTENT_CLASSIFIED", "TRAVERSED", "SUBGRAPH_EXTRACTED", "REASONED",
      "RANKED", "DONE">>

\* The phases entered so far are in the order of PhaseOrder, none twice.
PhasesAscending ==
    \A i, j \in 1..Len(phases) :
        i < j => \E a, b \in 1..Len(PhaseOrder) :
                    a < b /\ PhaseOrder[a] = phases[i] /\ PhaseOrder[b] = phases[j]

\* The phases of a finished call, by driver and query type.
PhasesOfFinishedCall ==
    IF ~driver THEN phases = <<"RECEIVED", "DONE">>
    ELSE CASE graph_query.query_type = "subgraph" ->
                 phases = <<"RECEIVED", "INTENT_CLASSIFIED", "SUBGRAPH_EXTRACTED", "REASONED",
                            "RANKED", "DONE">>
           [] graph_query.query_type = "clustering" ->
                 phases = <<"RECEIVED", "INTENT_CLASSIFIED", "RANKED", "DONE">>
           [] OTHER ->
                 phases = <<"RECEIVED", "INTENT_CLASSIFIED", "TRAVERSED", "RANKED", "DONE">>

\* C21 (as the code has it): every graph_rag_search call enters phases in
\* the order RECEIVED, INTENT_CLASSIFIED, TRAVERSED or SUBGRAPH_EXTRACTED,
\* REASONED, RANKED, DONE, none twice, and eventually reaches DONE; it skips
\* to DONE from RECEIVED without a driver, enters REASONED only after
\* SUBGRAPH_EXTRACTED, and enters neither strategy phase for CLUSTERING.
C21_PhasesInOrder ==
    /\ [](entry = "graph_rag_search" => (PhasesAscending /\ phases[1] = "RECEIVED"))
    /\ [](GraphSearchDone => PhasesOfFinishedCall)
    /\ ((entry = "graph_rag_search") ~> GraphSearchDone)

\* A traversal call that finished without entering REASONED.
C21_Witness ==
    /\ GraphSearchDone
    /\ driver
    /\ graph_query.query_type = "multi_hop"
    /\ phases = <<"RECEIVED", "INTENT_CLASSIFIED", "TRAVERSED", "RANKED", "DONE">>

\* C21 (as stated): every finished call went through RECEIVED,
\* INTENT_CLASSIFIED, exactly one of TRAVERSED and SUBGRAPH_EXTRACTED, then
\* REASONED, RANKED and DONE.
C21_EveryPhaseEntered ==
    GraphSearchDone =>
        phases \in {<<"RECEIVED", "INTENT_CLASSIFIED", "TRAVERSED", "REASONED", "RANKED", "DONE">>,
                    <<"RECEIVED", "INTENT_CLASSIFIED", "SUBGRAPH_EXTRACTED", "REASONED",
                      "RANKED", "DONE">>}

(***************************************************************************)
(* Construction and initialization of the modules, and                      *)
(* GraphRAGApp.build_knowledge_base.  The graph store of the configuration  *)
(* is "ok", "unusable" (the driver object is created and every session      *)
(* fails: wrong credentials, unreachable host) or "malformed" (creating     *)
(* the driver already raises: missing URI or credentials).                  *)
(***************************************************************************)
Configs ==
    {[neo4j |-> n, llm_api_key |-> k] : n \in {"ok", "unusable", "malformed"}, k \in BOOLEAN}

BadGraphStore == config.neo4j \in {"unusable", "malformed"}

\* GraphRAGApp.initialize reads the configuration (load_dotenv, DEFAULT_CONFIG).
LoadConfig(cfg) ==
    /\ pc = "idle"
    /\ config = NoConfig
    /\ config' = cfg
    /\ entry' = "load_config"
    /\ UNCHANGED <<indexVars, buildVars, reasonVars, graphVars, hybridVars, streamVars, replVars,
                   engines, data_module, system_ready, pc, query, top_k, llm_kind, returned,
                   raised>>

\* GenerationIntegrationModule.setup_llm: raises ValueError without an API
\* key and re-raises what the client constructor raises.
setup_llm(has_key, client_ok) == IF has_key /\ client_ok THEN "ready" ELSE "failed"

SetupLlm(client_ok) ==
    /\ pc = "idle"
    /\ config # NoConfig
    /\ engines.generation = "new"
    /\ engines' = [engines EXCEPT !.generation = setup_llm(config.llm_api_key, client_ok)]
    /\ raised' = (setup_llm(config.llm_api_key, client_ok) = "failed")
    /\ entry' = "setup_llm"
    /\ UNCHANGED <<indexVars, buildVars, reasonVars, graphVars, hybridVars, streamVars, replVars,
                   config, data_module, system_ready, pc, query, top_k, llm_kind, returned>>

\* What the reads of _build_graph_index can do under the configured store:
\* every read fails when the store is unusable.
StoreLoads ==
    IF config.neo4j = "ok" THEN LoadOutcomes(FALSE) ELSE {[ok |-> FALSE, args |-> NoBuildArgs]}
StoreRelations ==
    IF config.neo4j = "ok" THEN {r \in RelationOutcomes : Len(r.triples) <= 1}
    ELSE {[ok |-> FALSE, triples |-> <<>>]}

\* The index after _build_graph_index without a graph data module (the
\* import of GraphDataPreparationModule fails and is logged).
IndexAfterBuild(load, rels) ==
    deduplicate_entities_and_relations(
        create_relation_key_values(
            IF load.ok THEN create_entity_key_values(CurrentIndex, load.args) ELSE CurrentIndex,
            rels.triples))

\* HybridRetrievalModule.initialize(chunks): GraphDatabase.driver raises on
\* a malformed configuration and connects lazily otherwise; the index build
\* catches every failure of its reads.
HybridInitialize(load, rels) ==
    /\ pc = "idle"
    /\ engines.generation = "ready"
    /\ engines.hybrid = "new"
    /\ entry' = "HybridRetrievalModule.initialize"
    /\ IF config.neo4j = "malformed"
       THEN /\ engines' = [engines EXCEPT !.hybrid = "failed"]
            /\ raised' = TRUE
            /\ UNCHANGED <<indexVars, graph_indexed, graph_fail>>
       ELSE /\ engines' = [engines EXCEPT !.hybrid = "ready"]
            /\ raised' = FALSE
            /\ entity_kv_store' = IndexAfterBuild(load, rels).entity_kv_store
            /\ key_to_entities' = IndexAfterBuild(load, rels).key_to_entities
            /\ relation_kv_store' = IndexAfterBuild(load, rels).relation_kv_store
            /\ key_to_relations' = IndexAfterBuild(load, rels).key_to_relations
            /\ graph_indexed' = TRUE
            /\ graph_fail' = (~load.ok \/ ~rels.ok)
    /\ UNCHANGED <<reasonVars, hybridVars, streamVars, replVars, config, data_module,
                   system_ready, pc, query, top_k, llm_kind, returned, graph_query, driver,
                   llm_resp, build_args, index_before, observed, builds, build_pos>>

\* GraphRAGRetrieval.initialize: the connection attempt is wrapped in
\* try/except, the failure is logged and the method returns; the index
\* warm-up catches its own failures.  self.driver is assigned before the
\* test query runs, so it stays set when only the session fails.
GraphInitialize ==
    /\ pc = "idle"
    /\ engines.generation = "ready"
    /\ engines.graph_rag = "new"
    /\ entry' = "GraphRAGRetrieval.initialize"
    /\ engines' = [engines EXCEPT !.graph_rag = "ready"]
    /\ raised' = FALSE
    /\ driver' = (config.neo4j # "malformed")
    /\ graph_fail' = BadGraphStore
    /\ UNCHANGED <<indexVars, buildVars, reasonVars, hybridVars, streamVars, replVars, config,
                   data_module, system_ready, pc, query, top_k, llm_kind, returned, graph_query,
                   llm_resp>>

\* GraphDataPreparationMoudule.build_documents: the body ends after
\* `document = []`; self.documents is left as it was.
build_documents(docs) == docs

\* GraphDataPreparationMoudule.chunk_douments: raises ValueError when
\* self.documents is empty, else one chunk per document no longer than
\* chunk_size.
chunk_douments(docs) ==
    [raised |-> docs = <<>>,
     chunks |-> [i \in 1..Len(docs) |-> [parent_id |-> docs[i], chunk_index |-> 0]]]

\* GraphRAGApp.build_knowledge_base, after GraphRAGApp.initialize succeeded
\* (the data module is connected, the LLM client set).  Every exception is
\* caught, printed and turned into the result False; store_out keeps
\* whether load_graph_data and the vector index calls succeeded.
BuildKnowledgeBase(has_collection, graph_ok, index_ok, load, rels) ==
    /\ pc = "idle"
    /\ config.neo4j = "ok"
    /\ engines = [NoEngines EXCEPT !.generation = "ready"]
    /\ ~system_ready
    /\ entry' = "build_knowledge_base"
    /\ store_out' = [kind |-> IF graph_ok THEN "loaded" ELSE "fail", vector_index |-> index_ok]
    /\ raised' = FALSE
    /\ LET docs == build_documents(data_module.documents)
           chunked == chunk_douments(docs)
           built == /\ graph_ok
                    /\ ~chunked.raised
                    /\ index_ok \/ has_collection
       IN /\ data_module' = [documents |-> docs,
                             chunks |-> IF graph_ok /\ ~chunked.raised THEN chunked.chunks
                                        ELSE data_module.chunks]
          /\ system_ready' = built
          /\ IF built
             THEN /\ engines' = [engines EXCEPT !.hybrid = "ready", !.graph_rag = "ready"]
                  /\ entity_kv_store' = IndexAfterBuild(load, rels).entity_kv_store
                  /\ key_to_entities' = IndexAfterBuild(load, rels).key_to_entities
                  /\ relation_kv_store' = IndexAfterBuild(load, rels).relation_kv_store
                  /\ key_to_relations' = IndexAfterBuild(load, rels).key_to_relations
                  /\ graph_indexed' = TRUE
                  /\ graph_fail' = (~load.ok \/ ~rels.ok)
                  /\ driver' = TRUE
             ELSE UNCHANGED <<engines, indexVars, graph_indexed, graph_fail, driver>>
    /\ UNCHANGED <<hybridVars, streamVars, replVars, config, pc, query, top_k, llm_kind,
                   returned, graph_query, llm_resp, build_args, index_before, observed, builds,
                   build_pos, subgraph, strategy_docs, phases>>

\* The first query of an initialized graph engine.
FirstGraphQuery(q, k) == engines.graph_rag = "ready" /\ GraphRagSearch(q, k)

\* The outcomes of the graph store calls under the configured store.
StorePathOutcomes == IF config.neo4j = "ok" THEN PathOutcomes ELSE {[ok |-> FALSE, recs |-> <<>>]}
StoreSubgraphOutcomes ==
    IF config.neo4j = "ok" THEN SubgraphOutcomes ELSE {[kind |-> "fail", record |-> EmptySubgraph]}

NextStartup ==
    \/ \E cfg \in Configs : LoadConfig(cfg)
    \/ \E client_ok \in BOOLEAN : SetupLlm(client_ok)
    \/ \E load \in StoreLoads, rels \in StoreRelations : HybridInitialize(load, rels)
    \/ GraphInitialize
    \/ \E has_collection, graph_ok, index_ok \in BOOLEAN :
          \E load \in StoreLoads, rels \in StoreRelations :
             BuildKnowledgeBase(has_collection, graph_ok, index_ok, load, rels)
    \/ \E q \in ShortQueries, k \in TopKs : FirstGraphQuery(q, k)
    \/ \E resp \in LLMGraphResponses : UnderstandGraphQuery(resp)
    \/ \E paths_out \in StorePathOutcomes, sub_out \in StoreSubgraphOutcomes :
          ExecuteStrategy(paths_out, sub_out)
    \/ Finish

\* The modules as their constructors leave them.
InitStartup ==
    /\ entity_kv_store = << >>
    /\ relation_kv_store = << >>
    /\ key_to_entities = << >>
    /\ key_to_relations = << >>
    /\ driver = FALSE
    /\ NoRequest

SpecStartup == InitStartup /\ [][NextStartup]_vars

\* C22: a configuration or connection error at initialization (missing or
\* unusable graph-store credentials, missing LLM API key) surfaces to the
\* caller of initialize immediately: no engine ends initialization ready to
\* accept queries after such an error.
C22_InitErrorsSurface ==
    /\ (engines.generation # "new" /\ ~config.llm_api_key) => engines.generation = "failed"
    /\ (engines.hybrid # "new" /\ BadGraphStore) => engines.hybrid = "failed"
    /\ (engines.graph_rag # "new" /\ BadGraphStore) => engines.graph_rag = "failed"
    /\ (entry = "setup_llm" /\ ~config.llm_api_key) => raised
    /\ (entry = "HybridRetrievalModule.initialize" /\ BadGraphStore) => raised
    /\ (entry = "GraphRAGRetrieval.initialize" /\ BadGraphStore) => raised

\* GraphRAGRetrieval.initialize returned normally with an unusable store and
\* the engine then answered its first query with an empty list.
C22_ErrorSwallowed ==
    /\ BadGraphStore
    /\ engines.graph_rag = "ready"
    /\ entry = "graph_rag_search"
    /\ pc = "done"
    /\ returned = <<>>
    /\ ~raised

\* build_knowledge_base ran with the graph data loaded and the vector
\* index calls succeeding.
KnowledgeBaseBuilt ==
    /\ entry = "build_knowledge_base"
    /\ store_out.kind = "loaded"
    /\ store_out.vector_index

\* C23: when build_documents yields no documents, the chunking step and the
\* knowledge-base build that follows complete without raising: chunking
\* returns an empty chunk list, the retrievers are initialized and the
\* system becomes ready.
C23_EmptyDocumentSetHandled ==
    (KnowledgeBaseBuilt /\ data_module.documents = <<>>) =>
        /\ ~chunk_douments(data_module.documents).raised
        /\ data_module.chunks = <<>>
        /\ engines.hybrid = "ready"
        /\ engines.graph_rag = "ready"
        /\ system_ready

\* The build ended at the chunking step: no retriever initialized, the
\* system not ready.
C23_BuildStopsAtChunking ==
    /\ KnowledgeBaseBuilt
    /\ data_module.documents = <<>>
    /\ chunk_douments(data_module.documents).raised
    /\ engines.hybrid = "new"
    /\ engines.graph_rag = "new"
    /\ ~system_ready

(***************************************************************************)
(* Order and tags of the list hybrid_search builds (specification Spec).   *)
(***************************************************************************)
\* The first position of dedup key d in a list of documents.
FirstAt(docs, d) ==
    CHOOSE i \in 1..Len(docs) :
        DocId(docs[i]) = d /\ \A j \in 1..(i - 1) : DocId(docs[j]) # d

\* C24: in the merged list of hybrid_search the documents taken from
\* dual_docs keep their relative order and so do those from vector_docs; a
\* document taken from position i of either list precedes every document
\* taken from a position j > i, and dual_docs[i] precedes vector_docs[i]:
\* the merged list is a subsequence of d0, v0, d1, v1, ..., and the whole
\* of it when the dedup keys are pairwise distinct.
C24_MergedInRoundRobinOrder ==
    HybridDone =>
        LET order == Interleaved(dual_docs, vector_docs)
        IN /\ \A m \in 1..Len(merged_docs) :
                Untag(merged_docs[m]) = order[FirstAt(order, DocId(merged_docs[m]))]
           /\ \A m, n \in 1..Len(merged_docs) :
                m < n => FirstAt(order, DocId(merged_docs[m]))
                           < FirstAt(order, DocId(merged_docs[n]))
           /\ KeysPairwiseDistinct(dual_docs, vector_docs) =>
                [m \in 1..Len(merged_docs) |-> Untag(merged_docs[m])] = order

\* Lists of different lengths with distinct keys: the merge alternates and
\* ends with the remainder of the longer list.
C24_Witness ==
    /\ HybridDone
    /\ KeysPairwiseDistinct(dual_docs, vector_docs)
    /\ Len(dual_docs) >= 1
    /\ Len(vector_docs) >= 1
    /\ Len(dual_docs) # Len(vector_docs)
    /\ Len(merged_docs) = Len(dual_docs) + Len(vector_docs)

\* C25: in every list hybrid_search returns, the document at index i
\* carries round_robin_order = i and the search_method of the list it was
\* taken from ('dual_level' for dual_docs, 'vector_enhanced' for
\* vector_docs); the list is a prefix of the merged list and its length is
\* min(top_k, number of accepted documents).
C25_TagsAndPrefix ==
    HybridDone =>
        /\ Len(returned) = Min(top_k, Len(merged_docs))
        /\ returned = SubSeq(merged_docs, 1, Len(returned))
        /\ \A i \in 1..Len(returned) :
              /\ returned[i].metadata.round_robin_order = Some(i - 1)
              /\ \/ /\ returned[i].metadata.search_method = "dual_level"
                    /\ \E j \in 1..Len(dual_docs) : Untag(returned[i]) = dual_docs[j]
                 \/ /\ returned[i].metadata.search_method = "vector_enhanced"
                    /\ \E j \in 1..Len(vector_docs) : Untag(returned[i]) = vector_docs[j]

\* A truncated result holding a document of each origin.
C25_Witness ==
    /\ HybridDone
    /\ Len(merged_docs) > top_k
    /\ Len(returned) = top_k
    /\ \E i, j \in 1..Len(returned) :
          /\ returned[i].metadata.search_method = "dual_level"
          /\ returned[j].metadata.search_method = "vector_enhanced"

\* C26: for each of the five recognized query types returned by
\* understand_graph_query, graph_rag_search executes a traversal or
\* extraction strategy matching that type against the graph store; no
\* recognized type falls through with no strategy executed.
C26_EveryTypeHasStrategy ==
    (GraphSearchDone /\ driver /\ graph_query.query_type \in QueryTypes) =>
        IF graph_query.query_type = "subgraph"
        THEN "SUBGRAPH_EXTRACTED" \in Range(phases)
        ELSE "TRAVERSED" \in Range(phases)

\* A CLUSTERING query finished with no strategy executed and no document.
C26_ClusteringFallsThrough ==
    /\ GraphSearchDone
    /\ driver
    /\ graph_query.query_type = "clustering"
    /\ "TRAVERSED" \notin Range(phases)
    /\ "SUBGRAPH_EXTRACTED" \notin Range(phases)
    /\ strategy_docs = <<>>
    /\ returned = <<>>

(***************************************************************************)
(* GenerationIntegrationModule.generate_adaptive_answer_stream as the       *)
(* generator GraphRAGApp._stream_answer iterates to its end.  A yielded     *)
(* piece is kept with its origin: the streaming attempt that produced it,   *)
(* or the fallback.                                                         *)
(***************************************************************************)
MaxRetries == 3
MaxChunks == 2

Piece(origin, n) == [origin |-> origin, attempt |-> n]

\* A retry that waits the same two seconds every time.
wait_time_constant(n) == 2

\* wait_time = (attempt + 1) * 2
wait_time(n) == (n + 1) * 2

InitStream ==
    /\ entity_kv_store = << >>
    /\ relation_kv_store = << >>
    /\ key_to_entities = << >>
    /\ key_to_relations = << >>
    /\ driver = TRUE
    /\ NoRequest

\* The call: the prompt is built; `for attempt in range(max_retries)` has no
\* iteration when max_retries is 0.
GenerateAdaptiveAnswerStream(n) ==
    /\ pc = "idle"
    /\ entry' = "generate_adaptive_answer_stream"
    /\ max_retries' = n
    /\ attempt' = 0
    /\ pc' = IF n > 0 THEN "create" ELSE "done"
    /\ stream_end' = IF n > 0 THEN Null ELSE "no_attempt"
    /\ UNCHANGED <<indexVars, buildVars, reasonVars, graphVars, hybridVars, appVars, replVars,
                   yielded, waits, fallback_calls, query, top_k, llm_kind, returned, raised>>

\* The except branch of an attempt: sleep and go to the next attempt, or,
\* after the last one, call generate_adaptive_answer (which returns the
\* answer or its own apology) and yield what it returned.
AttemptFailed ==
    IF attempt < max_retries - 1
    THEN /\ waits' = Append(waits, wait_time(attempt))
         /\ attempt' = attempt + 1
         /\ pc' = "create"
         /\ UNCHANGED <<yielded, fallback_calls, stream_end>>
    ELSE /\ fallback_calls' = fallback_calls + 1
         /\ yielded' = Append(yielded, Piece("fallback", attempt))
         /\ stream_end' = "fallback"
         /\ pc' = "done"
         /\ UNCHANGED <<waits, attempt>>

\* client.chat.completions.create(stream=True) of the current attempt.
CreateStream(ok) ==
    /\ pc = "create"
    /\ IF ok
       THEN /\ pc' = "streaming"
            /\ UNCHANGED <<attempt, yielded, waits, fallback_calls, stream_end>>
       ELSE AttemptFailed
    /\ UNCHANGED <<indexVars, buildVars, reasonVars, graphVars, hybridVars, appVars, replVars,
                   max_retries, entry, query, top_k, llm_kind, returned, raised>>

\* One chunk with content arrives and is yielded.
YieldChunk ==
    /\ pc = "streaming"
    /\ Cardinality({i \in 1..Len(yielded) : yielded[i] = Piece("stream", attempt)}) < MaxChunks
    /\ yielded' = Append(yielded, Piece("stream", attempt))
    /\ UNCHANGED <<indexVars, buildVars, reasonVars, graphVars, hybridVars, appVars, replVars,
                   max_retries, attempt, waits, fallback_calls, stream_end, pc, entry, query,
                   top_k, llm_kind, returned, raised>>

\* The response is exhausted: return.
StreamCompletes ==
    /\ pc = "streaming"
    /\ pc' = "done"
    /\ stream_end' = "completed"
    /\ UNCHANGED <<indexVars, buildVars, reasonVars, graphVars, hybridVars, appVars, replVars,
                   max_retries, attempt, yielded, waits, fallback_calls, entry, query, top_k,
                   llm_kind, returned, raised>>

\* Reading the next chunk raises (connection lost, timeout).
StreamBreaks ==
    /\ pc = "streaming"
    /\ AttemptFailed
    /\ UNCHANGED <<indexVars, buildVars, reasonVars, graphVars, hybridVars, appVars, replVars,
                   max_retries, entry, query, top_k, llm_kind, returned, raised>>

\* _stream_answer joins what it was given and returns.
StreamReturn ==
    /\ pc = "done"
    /\ entry = "generate_adaptive_answer_stream"
    /\ pc' = "idle"
    /\ entry' = Null
    /\ max_retries' = 0
    /\ attempt' = 0
    /\ yielded' = <<>>
    /\ waits' = <<>>
    /\ fallback_calls' = 0
    /\ stream_end' = Null
    /\ UNCHANGED <<indexVars, buildVars, reasonVars, graphVars, hybridVars, appVars, replVars,
                   query, top_k, llm_kind, returned, raised>>

NextStream ==
    \/ \E n \in 0..MaxRetries : GenerateAdaptiveAnswerStream(n)
    \/ \E ok \in BOOLEAN : CreateStream(ok)
    \/ YieldChunk
    \/ StreamCompletes
    \/ StreamBreaks
    \/ StreamReturn

\* The consumer iterates to the end and the response of an attempt is
\* finite (max_tokens, timeout=60): every step of the generator is taken.
SpecStream ==
    /\ InitStream
    /\ [][NextStream]_vars
    /\ WF_vars(\E ok \in BOOLEAN : CreateStream(ok))
    /\ WF_vars(StreamCompletes \/ StreamBreaks)

Streaming == entry = "generate_adaptive_answer_stream"
StreamDone == Streaming /\ pc = "done"

\* C27: generate_adaptive_answer_stream makes at most max_retries streaming
\* attempts; attempt k+1 starts only after attempt k raised and after a
\* wait of 2*k seconds (2, 4, ...); a streaming attempt that completes ends
\* the generator with no further attempt; if the last attempt raises,
\* generate_adaptive_answer is called exactly once and what it returns is
\* yielded; the generator always terminates.
C27_BoundedRetries ==
    /\ [](Streaming =>
            /\ max_retries > 0 => attempt < max_retries
            /\ Len(waits) = attempt
            /\ \A k \in 1..Len(waits) : waits[k] = 2 * k
            /\ fallback_calls = (IF stream_end = "fallback" THEN 1 ELSE 0)
            /\ stream_end = "fallback" =>
                  /\ attempt = max_retries - 1
                  /\ yielded[Len(yielded)] = Piece("fallback", attempt)
            /\ \A i \in 1..Len(yielded) :
                  yielded[i].origin = "fallback" => i = Len(yielded) /\ pc = "done")
    /\ [][(pc = "streaming" /\ stream_end' = "completed")
             => (pc' = "done" /\ attempt' = attempt /\ fallback_calls' = 0
                 /\ yielded' = yielded)]_vars
    /\ (Streaming ~> StreamDone)

\* Two attempts failed, the waits were 2 and 4 seconds, the third completed.
C27_Witness ==
    /\ StreamDone
    /\ max_retries = 3
    /\ attempt = 2
    /\ waits = <<2, 4>>
    /\ stream_end = "completed"

\* Every attempt failed and the fallback was called.
C27_WitnessFallback ==
    /\ StreamDone
    /\ max_retries = 2
    /\ waits = <<2>>
    /\ stream_end = "fallback"
    /\ fallback_calls = 1

\* C29: the chunks yielded by one call come from a single attempt: output
\* already yielded by a streaming attempt that then fails is never followed
\* by output of a later attempt or of the non-streaming fallback.
C29_SingleAttemptOutput ==
    Streaming => \A i, j \in 1..Len(yielded) : yielded[i] = yielded[j]

\* A chunk of the first attempt followed by a chunk of the second.
C29_MixedOutput ==
    /\ StreamDone
    /\ stream_end = "completed"
    /\ \E i, j \in 1..Len(yielded) :
          /\ i < j
          /\ yielded[i] = Piece("stream", 0)
          /\ yielded[j] = Piece("stream", 1)

(***************************************************************************)
(* REPL.run.  Time is counted in tenths of a second; time.time() is far     *)
(* from 0, the initial _last_interrupt_time.                                *)
(***************************************************************************)
MaxClock == 70

\* self._double_interrupt_window = 1.5
double_interrupt_window == 15

\* A window that also counts two interrupts exactly 1.5 seconds apart.
within_window_inclusive(now, last) == now - last <= double_interrupt_window

\* current_time - self._last_interrupt_time < self._double_interrupt_window
within_window(now, last) == now - last < double_interrupt_window

InitRepl ==
    /\ entity_kv_store = << >>
    /\ relation_kv_store = << >>
    /\ key_to_entities = << >>
    /\ key_to_relations = << >>
    /\ driver = TRUE
    /\ NoCall
    /\ NoApp
    /\ NoStream
    /\ running = FALSE
    /\ interrupt_count = 0
    /\ last_interrupt_time = 0
    /\ clock = 2 * double_interrupt_window
    /\ interrupts = <<>>
    /\ exit_cause = Null

\* self._running = True; the loop waits at the prompt.
Run ==
    /\ pc = "idle"
    /\ ~running
    /\ exit_cause = Null
    /\ running' = TRUE
    /\ pc' = "prompt"
    /\ entry' = "run"
    /\ UNCHANGED <<indexVars, buildVars, reasonVars, graphVars, hybridVars, appVars, streamVars,
                   interrupt_count, last_interrupt_time, clock, interrupts, exit_cause,
                   query, top_k, llm_kind, returned, raised>>

\* Time passes, at the prompt or while a query is processed.
Tick(d) ==
    /\ running
    /\ clock + d <= MaxClock
    /\ clock' = clock + d
    /\ UNCHANGED <<indexVars, buildVars, reasonVars, graphVars, hybridVars, appVars, streamVars,
                   running, interrupt_count, last_interrupt_time, interrupts, exit_cause,
                   pc, entry, query, top_k, llm_kind, returned, raised>>

\* Ctrl+C at the prompt: the outer `except KeyboardInterrupt`.
PromptInterrupt ==
    /\ running
    /\ pc = "prompt"
    /\ interrupts' = Append(interrupts, clock)
    /\ IF within_window(clock, last_interrupt_time)
       THEN /\ interrupt_count' = interrupt_count + 1
            /\ IF interrupt_count + 1 >= 2
               THEN /\ running' = FALSE
                    /\ exit_cause' = "ctrl_c"
                    /\ pc' = "exited"
                    /\ UNCHANGED last_interrupt_time
               ELSE /\ last_interrupt_time' = clock
                    /\ UNCHANGED <<running, exit_cause, pc>>
       ELSE /\ interrupt_count' = 1
            /\ last_interrupt_time' = clock
            /\ UNCHANGED <<running, exit_cause, pc>>
    /\ UNCHANGED <<indexVars, buildVars, reasonVars, graphVars, hybridVars, appVars, streamVars,
                   clock, entry, query, top_k, llm_kind, returned, raised>>

\* A line that is not a command: on_query is called.
SubmitQuery ==
    /\ running
    /\ pc = "prompt"
    /\ pc' = "query"
    /\ UNCHANGED <<indexVars, buildVars, reasonVars, graphVars, hybridVars, appVars, streamVars,
                   replVars, entry, query, top_k, llm_kind, returned, raised>>

\* on_query returns, raises an Exception, or is interrupted by Ctrl+C:
\* the inner handlers render a message and the loop goes on.
QueryEnds(how) ==
    /\ running
    /\ pc = "query"
    /\ pc' = "prompt"
    /\ raised' = (how = "interrupted")
    /\ UNCHANGED <<indexVars, buildVars, reasonVars, graphVars, hybridVars, appVars, streamVars,
                   replVars, entry, query, top_k, llm_kind, returned>>

\* /quit (_cmd_quit) or end of input (EOFError).
Quit(cause) ==
    /\ running
    /\ pc = "prompt"
    /\ running' = (cause = "eof")
    /\ exit_cause' = cause
    /\ pc' = "exited"
    /\ UNCHANGED <<indexVars, buildVars, reasonVars, graphVars, hybridVars, appVars, streamVars,
                   interrupt_count, last_interrupt_time, clock, interrupts, entry, query, top_k,
                   llm_kind, returned, raised>>

NextRepl ==
    \/ Run
    \/ \E d \in {5, 10} : Tick(d)
    \/ PromptInterrupt
    \/ SubmitQuery
    \/ \E how \in {"returned", "failed", "interrupted"} : QueryEnds(how)
    \/ \E cause \in {"quit", "eof"} : Quit(cause)

SpecRepl == InitRepl /\ [][NextRepl]_vars

InLoop == pc \in {"prompt", "query"}

\* C28: REPL.run leaves its loop because of Ctrl+C only after two consecutive
\* KeyboardInterrupts at the prompt less than 1.5 seconds apart; a single
\* Ctrl+C, or two Ctrl+C further apart than the window, leaves the loop
\* running; a KeyboardInterrupt raised while a query is processed only
\* aborts that query and never terminates the loop.
C28_DoubleInterruptExits ==
    /\ [](exit_cause = "ctrl_c" =>
            /\ Len(interrupts) >= 2
            /\ interrupts[Len(interrupts)] - interrupts[Len(interrupts) - 1]
                  < double_interrupt_window)
    /\ [][(/\ InLoop
            /\ Len(interrupts') = Len(interrupts) + 1
            /\ \/ interrupts = <<>>
               \/ clock - interrupts[Len(interrupts)] >= double_interrupt_window)
           => (pc' = "prompt" /\ running')]_vars
    /\ [][pc = "query" => (pc' \in {"prompt", "query"} /\ running' /\ exit_cause' = Null
                           /\ interrupts' = interrupts)]_vars

\* Two Ctrl+C at the prompt one second apart ended the loop, after an earlier
\* lone Ctrl+C had not.
C28_Witness ==
    /\ exit_cause = "ctrl_c"
    /\ Len(interrupts) = 3
    /\ interrupts[2] - interrupts[1] >= double_interrupt_window
    /\ interrupts[3] - interrupts[2] = 10

\* Two Ctrl+C exactly 1.5 seconds apart, then a query interrupted: still in the loop.
C28_WitnessStillRunning ==
    /\ running
    /\ pc = "prompt"
    /\ raised
    /\ Len(interrupts) = 2
    /\ interrupts[2] - interrupts[1] = double_interrupt_window

\* C30: after any sequence of create_entity_key_values calls the key mapping
\* and the entity store agree: for every key k and every id in
\* key_to_entities[k], id is a key of entity_kv_store,
\* entity_kv_store[id].index_keys contains k, and id occurs only once in
\* key_to_entities[k].
C30_KeyMappingAgreesWithStore ==
    \A k \in DOMAIN key_to_entities :
        \A i \in 1..Len(key_to_entities[k]) :
            /\ key_to_entities[k][i] \in DOMAIN entity_kv_store
            /\ k \in Range(entity_kv_store[key_to_entities[k][i]].index_keys)
            /\ \A j \in 1..Len(key_to_entities[k]) :
                  key_to_entities[k][j] = key_to_entities[k][i] => j = i

\* One call indexed identifier n2 as a city named a and as an attraction
\* named b: the store holds the attraction, key a still lists n2.
C30_StaleKey ==
    /\ entry = "create_entity_key_values"
    /\ "a" \in DOMAIN key_to_entities
    /\ "n2" \in Range(key_to_entities["a"])
    /\ "n2" \in DOMAIN entity_kv_store
    /\ entity_kv_store["n2"].index_keys = <<"b">>
====
